---- MODULE Spec2Model ----
(***************************************************************************)
(* Desktop mirroring prototype: capture a source display, fit it into a   *)
(* fixed output canvas, overlay the reconstructed pointer and present.    *)
(*                                                                         *)
(* Two duplication-style programs are modelled here:                      *)
(*   variant "dxgi" : src/DXGI_version/main_dxgi.cpp                      *)
(*   variant "main" : src/GDI_version/main.cpp                            *)
(*                                                                         *)
(* Spec       : the WinMain loop of both programs, one action per         *)
(*              handler (Startup, DrainMessages, the tick, Cleanup).      *)
(* SpecDecode : UpdateCursorShape applied to bounded pointer-shape        *)
(*              payloads.                                                  *)
(* SpecBlend  : DrawCursorOnTexture of main_dxgi.cpp at texel level: a    *)
(*              decoded bitmap is blended into the mapped back buffer.    *)
(* SpecLoop   : Spec together with the WinMain loops of main_gdi.cpp and   *)
(*              main_magnifier.cpp.                                       *)
(* SpecPacing : the frame timing at the end of a tick of main_dxgi.cpp,    *)
(*              main_gdi.cpp and main_magnifier.cpp.                      *)
(* SpecAverage: the frame timing over a run of ticks without work.         *)
(* SpecMalformed: UpdateCursorShape on payloads whose size or pitch does   *)
(*              not fit the declared dimensions.                          *)
(* SpecCanvas : the output canvas of main_dxgi.cpp, main.cpp and           *)
(*              main_gdi.cpp at sample pixels around the pad boundary.    *)
(* SpecPointer: where a tick of main_dxgi.cpp and of main_gdi.cpp draws   *)
(*              the pointer, for pointer positions in and around the      *)
(*              source rectangle.                                         *)
(*                                                                         *)
(* Abstraction of pixels in Spec: a frame is a content id, a canvas is    *)
(* the id of the frame shown in its render region plus the cursor overlay *)
(* drawn on it.  Pointer-shape payloads and decoded cursor bitmaps are    *)
(* byte sequences, as in the code.                                        *)
(***************************************************************************)
EXTENDS Integers, Sequences, FiniteSets, TLC

VARIABLES
    variant,            \* which program runs: "dxgi" | "main"
    pc,                 \* position in WinMain
    g_Running,          \* static bool g_Running
    exitCode,           \* WinMain's return value, -1 while running
    reported,           \* MessageBoxA texts shown so far
    g_DeskDupl,         \* IDXGIOutputDuplication*: "null" | "live"
    textures,           \* contents of every staging texture ever created
    g_StagingTexture,   \* index into textures, 0 = nullptr
    g_DesktopSRV,       \* index of the texture the view refers to, 0 = nullptr
    g_CompositeTexture, \* main.cpp: <<canvas>> or <<>> when not created
    g_BackBuffer,       \* <<canvas>> or <<>> (contents undefined)
    presented,          \* <<canvas>> last handed to Present, <<>> if none
    g_CursorBuffer,     \* [alloc, bytes]: BYTE* g_CursorBuffer
    g_CursorWidth,
    g_CursorHeight,
    g_CursorHotspotX,
    g_CursorHotspotY,
    frameHeld,          \* frames acquired and not yet released
    trace,              \* calls made by the last tick, in order
    lastHr,             \* result of the last AcquireNextFrame
    lastInit,           \* outcome of InitDesktopDuplication in the last tick
    recoveryFailed,     \* some recreation after a device loss has failed
    lost,               \* number of device losses so far
    phase,              \* SpecDecode: position in the decode scenario
    shape,              \* the pointer-shape update handled last (SpecDecode: the payload under test)
    history,            \* SpecDecode: <<first decode's output, bitmap cached in between>>
    destBefore,         \* SpecBlend: the back buffer's texels as copied into stagingTex
    destData,           \* SpecBlend: the mapped texels after DrawCursorOnTexture
    written,            \* SpecBlend: byte offsets into destData the blend stored to
    drawn,              \* SpecBlend: the inputs of the last draw (position, RowPitch, outcome)
    g_lastCursor,       \* main_gdi.cpp: HCURSOR g_lastCursor, "null" = nullptr
    g_cachedHotspotX,   \* main_gdi.cpp: DWORD g_cachedHotspotX
    g_cachedHotspotY,
    cursorPos,          \* SpecPointer: the pointer position the last tick read
    overlay,            \* SpecPointer: <<[x, y, bmp]>> drawn by the last tick, <<>> if none
    showing,            \* SpecPointer: <<the system's pointer visibility flag during the last tick>>
    canvas,             \* SpecCanvas: sample pixel -> texel of the output canvas, <<>> before creation
    srcFrame,           \* SpecCanvas: content of the last frame copied from the source, 0 = none yet
    frameWrites,        \* SpecCanvas: sample pixels the frame composite wrote in the last tick
    cursorOnPad,        \* SpecCanvas: some tick drew cursor texels on pad-region pixels
    owned,              \* main_gdi.cpp, main_magnifier.cpp: the handles that are not null
    g_UseExcludeFromCapture, \* main_gdi.cpp
    elapsed,            \* SpecPacing: elapsedMs of the last tick, in clock units
    sleepArg,           \* SpecPacing: argument of the last tick's Sleep, -1 = not called
    interval,           \* SpecPacing: clock units between the starts of the last two ticks
    ticks,              \* SpecAverage: loop iterations completed
    total,              \* SpecAverage: clock units from the start of the first tick
    reads,              \* SpecMalformed: zero-based indices of shapeBuffer read by the decode
    magTransform,       \* main_magnifier.cpp: the transform of g_hMagWnd, <<>> before creation
    made,               \* [dupl, tex, srv]: objects created by InitDesktopDuplication so far
    freed               \* [dupl, tex, srv]: Release calls made on such objects so far

cursorVars == <<g_CursorBuffer, g_CursorWidth, g_CursorHeight,
                g_CursorHotspotX, g_CursorHotspotY>>
duplVars   == <<g_DeskDupl, textures, g_StagingTexture, g_DesktopSRV>>
decodeVars == <<phase, shape, history>>
loopVars   == <<variant, pc, g_Running, exitCode, reported, g_CompositeTexture,
                g_BackBuffer, presented, frameHeld, trace, lastHr, lastInit,
                recoveryFailed, lost>>
blendVars  == <<destBefore, destData, written, drawn>>
\* the variables of the specifications other than Spec and SpecDecode
gdiVars    == <<g_lastCursor, g_cachedHotspotX, g_cachedHotspotY>>
pointerVars == <<cursorPos, overlay, showing>>
canvasVars == <<canvas, srcFrame, frameWrites, cursorOnPad>>
handleVars == <<owned, g_UseExcludeFromCapture>>
paceVars   == <<elapsed, sleepArg, interval>>
avgVars    == <<ticks, total>>
malVars    == <<reads>>
magVars    == <<magTransform>>
resVars    == <<made, freed>>
moreVars   == <<avgVars, malVars, magVars, resVars>>
\* extVars without resVars
extButRes  == <<blendVars, gdiVars, pointerVars, canvasVars, handleVars, paceVars,
                avgVars, malVars, magVars>>
extVars    == <<blendVars, gdiVars, pointerVars, canvasVars, handleVars, paceVars, moreVars>>
vars == <<loopVars, duplVars, cursorVars, decodeVars, extVars>>

(***************************************************************************)
(* Program constants                                                       *)
(***************************************************************************)
SOURCE_WIDTH  == 1920
SOURCE_HEIGHT == 1080
RENDER_WIDTH  == 1440
RENDER_HEIGHT == 1080
OUTPUT_WIDTH  == 1920
OUTPUT_HEIGHT == 1080
TARGET_FPS    == 60
FRAME_TIME_MS == 1000 \div TARGET_FPS
FIRST_MONITOR_X == 0
FIRST_MONITOR_Y == 0

\* DXGI_OUTDUPL_POINTER_SHAPE_TYPE
SHAPE_MONOCHROME   == 1
SHAPE_COLOR        == 2
SHAPE_MASKED_COLOR == 4

(***************************************************************************)
(* Bounds                                                                  *)
(***************************************************************************)
NumFrames    == 2   \* distinct desktop contents the source can show
MaxLost      == 2   \* device losses per run
MaxMonoBytes == 4   \* bytes of a monochrome payload
MaxPixels    == 3   \* pixels of a colour / masked-colour payload
MaxBlendPixels == 2 \* pixels of a cursor bitmap blended at texel level
UnitsPerMs   == 4   \* resolution of the clock of SpecPacing, units per millisecond
MaxWorkMs    == 20  \* longest time a tick's work takes, in milliseconds
MaxOversleep == 2   \* longest time Sleep overruns its argument, in clock units
PacingTicks  == 600 \* loop iterations over which the average interval is taken

(***************************************************************************)
(* Small helpers                                                           *)
(***************************************************************************)
Blank    == 0                       \* "no desktop content" (all-zero texels)
Contents == 1..NumFrames
\* a texture created without initial data holds unspecified texels
UninitContents == 0..NumFrames

Count(s, e) == Cardinality({i \in DOMAIN s : s[i] = e})
IndexOf(s, e) == IF Count(s, e) = 0 THEN 0
                 ELSE CHOOSE i \in DOMAIN s : s[i] = e /\ \A j \in DOMAIN s : s[j] = e => i <= j

RECURSIVE Pow2(_)
Pow2(n) == IF n = 0 THEN 1 ELSE 2 * Pow2(n - 1)

\* (byte >> k) & 1
BitAt(byte, k) == (byte \div Pow2(k)) % 2

\* shapeBuffer[i], i zero-based as in the code
Rd(buf, i) == buf[i + 1]

NullBuffer == [alloc |-> FALSE, bytes |-> <<>>]

(***************************************************************************)
(* Cursor Reconstructor: UpdateCursorShape (main_dxgi.cpp)                 *)
(*                                                                         *)
(* A pointer-shape update is [info, buf]: info is the                      *)
(* DXGI_OUTDUPL_POINTER_SHAPE_INFO (Type, Width, Height, Pitch, HotSpot),  *)
(* buf the raw bytes.  The decoded bitmap is a flat byte sequence of       *)
(* Width * Height * 4 bytes, pixel (x, y) at zero-based offset             *)
(* (y * Width + x) * 4, as g_CursorBuffer is.                              *)
(***************************************************************************)

\* the four branches on (andBit, xorBit)
MonochromePixel(andBit, xorBit) ==
    IF andBit = 0 /\ xorBit = 0 THEN <<0, 0, 0, 255>>
    ELSE IF andBit = 0 /\ xorBit = 1 THEN <<255, 255, 255, 255>>
    ELSE IF andBit = 1 /\ xorBit = 0 THEN <<0, 0, 0, 0>>
    ELSE <<255, 255, 255, 128>>

\* plausible slip: bits are taken least-significant first
DecodeMonochrome_LsbFirst(shapeInfo, shapeBuffer) ==
    LET w == shapeInfo.Width
        h == shapeInfo.Height \div 2
    IN  [k \in 1..(w * h * 4) |->
            LET destIdx == ((k - 1) \div 4) * 4
                y       == (destIdx \div 4) \div w
                x       == (destIdx \div 4) % w
                byteIdx == y * shapeInfo.Pitch + (x \div 8)
                bitIdx  == x % 8
                andBit  == BitAt(Rd(shapeBuffer, byteIdx), bitIdx)
                xorBit  == BitAt(Rd(shapeBuffer, byteIdx + h * shapeInfo.Pitch), bitIdx)
            IN  MonochromePixel(andBit, xorBit)[((k - 1) % 4) + 1]]

\* the monochrome branch: AND mask rows 0..h-1, XOR mask rows h..2h-1
DecodeMonochrome(shapeInfo, shapeBuffer) ==
    LET w == shapeInfo.Width
        h == shapeInfo.Height \div 2
    IN  [k \in 1..(w * h * 4) |->
            LET destIdx == ((k - 1) \div 4) * 4
                y       == (destIdx \div 4) \div w
                x       == (destIdx \div 4) % w
                byteIdx == y * shapeInfo.Pitch + (x \div 8)
                bitIdx  == 7 - (x % 8)
                andBit  == BitAt(Rd(shapeBuffer, byteIdx), bitIdx)
                xorBit  == BitAt(Rd(shapeBuffer, byteIdx + h * shapeInfo.Pitch), bitIdx)
            IN  MonochromePixel(andBit, xorBit)[((k - 1) % 4) + 1]]

\* plausible slip: the source rows are taken to be tightly packed
DecodeColor_IgnorePitch(shapeInfo, shapeBuffer) ==
    LET w == shapeInfo.Width
        h == shapeInfo.Height
    IN  [k \in 1..(w * h * 4) |-> Rd(shapeBuffer, k - 1)]

\* the colour branch: memcpy of Width * 4 bytes per row, source rows at Pitch
DecodeColor(shapeInfo, shapeBuffer) ==
    LET w == shapeInfo.Width
        h == shapeInfo.Height
    IN  [k \in 1..(w * h * 4) |->
            LET y   == (k - 1) \div (w * 4)
                off == (k - 1) % (w * 4)
            IN  Rd(shapeBuffer, y * shapeInfo.Pitch + off)]

\* plausible slip: the mask byte is copied through as if it were alpha
DecodeMaskedColor_MaskAsAlpha(shapeInfo, shapeBuffer) ==
    LET w == shapeInfo.Width
        h == shapeInfo.Height
    IN  [k \in 1..(w * h * 4) |->
            LET p      == (k - 1) \div 4
                srcIdx == (p \div w) * shapeInfo.Pitch + (p % w) * 4
            IN  Rd(shapeBuffer, srcIdx + ((k - 1) % 4))]

\* the masked-colour branch: colour copied, alpha 128 if mask else 255
DecodeMaskedColor(shapeInfo, shapeBuffer) ==
    LET w == shapeInfo.Width
        h == shapeInfo.Height
    IN  [k \in 1..(w * h * 4) |->
            LET p      == (k - 1) \div 4
                ch     == (k - 1) % 4
                srcIdx == (p \div w) * shapeInfo.Pitch + (p % w) * 4
                mask   == Rd(shapeBuffer, srcIdx + 3)
            IN  IF ch < 3 THEN Rd(shapeBuffer, srcIdx + ch)
                ELSE IF mask # 0 THEN 128 ELSE 255]

\* the value g_CursorBuffer is left with
DecodedBuffer(shapeInfo, shapeBuffer) ==
    IF shapeInfo.Type = SHAPE_MONOCHROME
    THEN [alloc |-> TRUE, bytes |-> DecodeMonochrome(shapeInfo, shapeBuffer)]
    ELSE IF shapeInfo.Type = SHAPE_COLOR
    THEN [alloc |-> TRUE, bytes |-> DecodeColor(shapeInfo, shapeBuffer)]
    ELSE IF shapeInfo.Type = SHAPE_MASKED_COLOR
    THEN [alloc |-> TRUE, bytes |-> DecodeMaskedColor(shapeInfo, shapeBuffer)]
    ELSE NullBuffer

\* plausible slip: a buffer of the right size that is already cached is kept
\* instead of being rebuilt
UpdateCursorShape_ReuseCached(shapeInfo, shapeBuffer) ==
    LET new == DecodedBuffer(shapeInfo, shapeBuffer)
    IN  /\ g_CursorBuffer' =
              IF g_CursorBuffer.alloc /\ Len(g_CursorBuffer.bytes) = Len(new.bytes)
              THEN g_CursorBuffer ELSE new
        /\ g_CursorWidth' = shapeInfo.Width
        /\ g_CursorHeight' = IF shapeInfo.Type = SHAPE_MONOCHROME
                             THEN shapeInfo.Height \div 2 ELSE shapeInfo.Height
        /\ g_CursorHotspotX' = shapeInfo.HotSpot.x
        /\ g_CursorHotspotY' = shapeInfo.HotSpot.y

\* void UpdateCursorShape(shapeInfo, shapeBuffer): the old buffer is deleted
\* first, the four scalars are overwritten, then the buffer is rebuilt by type
UpdateCursorShape(shapeInfo, shapeBuffer) ==
    /\ g_CursorBuffer' = DecodedBuffer(shapeInfo, shapeBuffer)
    /\ g_CursorWidth' = shapeInfo.Width
    /\ g_CursorHeight' = IF shapeInfo.Type = SHAPE_MONOCHROME
                         THEN shapeInfo.Height \div 2 ELSE shapeInfo.Height
    /\ g_CursorHotspotX' = shapeInfo.HotSpot.x
    /\ g_CursorHotspotY' = shapeInfo.HotSpot.y

\* the cached CursorBitmap as one value
CursorState == [buf |-> g_CursorBuffer, w |-> g_CursorWidth, h |-> g_CursorHeight,
                hx |-> g_CursorHotspotX, hy |-> g_CursorHotspotY]

(***************************************************************************)
(* Pointer-shape payloads the duplication API can deliver (well formed:    *)
(* Pitch covers one row, the buffer holds Height rows of Pitch bytes).     *)
(***************************************************************************)
HotSpots == {[x |-> 0, y |-> 0], [x |-> 3, y |-> 5]}

MonoBytes == {0, 64, 128, 193}
MonoConfigs ==
    {c \in {2, 8, 9} \X {2, 4} \X {1, 2} :
        /\ c[3] >= (c[1] + 7) \div 8
        /\ c[3] * c[2] <= MaxMonoBytes}
MonoShapes ==
    UNION {{[info |-> [Type |-> SHAPE_MONOCHROME, Width |-> c[1], Height |-> c[2],
                       Pitch |-> c[3], HotSpot |-> hs],
             buf  |-> b] : b \in [1..(c[3] * c[2]) -> MonoBytes], hs \in HotSpots}
           : c \in MonoConfigs}

\* B, G, R, A / mask
ColorPalette  == {<<10, 20, 30, 200>>, <<0, 0, 0, 0>>, <<255, 128, 1, 255>>}
MaskedPalette == {<<10, 20, 30, 0>>, <<10, 20, 30, 1>>, <<7, 8, 9, 255>>}
PixelDims == {d \in (1..MaxPixels) \X (1..MaxPixels) : d[1] * d[2] <= MaxPixels}

\* rows of w pixels followed by (pitch - 4w) filler bytes
PixelPayload(w, h, pitch, px) ==
    [k \in 1..(pitch * h) |->
        LET y   == (k - 1) \div pitch
            off == (k - 1) % pitch
        IN  IF off < 4 * w THEN px[y * w + (off \div 4) + 1][(off % 4) + 1] ELSE 238]

PixelShapes(type, palette) ==
    UNION {{[info |-> [Type |-> type, Width |-> d[1], Height |-> d[2],
                       Pitch |-> 4 * d[1] + pad, HotSpot |-> hs],
             buf  |-> PixelPayload(d[1], d[2], 4 * d[1] + pad, px)]
              : px \in [1..(d[1] * d[2]) -> palette], hs \in HotSpots, pad \in {0, 4}}
           : d \in PixelDims}

ColorShapes  == PixelShapes(SHAPE_COLOR, ColorPalette)
MaskedShapes == PixelShapes(SHAPE_MASKED_COLOR, MaskedPalette)
\* a type the decoder has no branch for
UnknownShapes ==
    {[info |-> [Type |-> 3, Width |-> 1, Height |-> 1, Pitch |-> 4, HotSpot |-> hs],
      buf  |-> <<10, 20, 30, 200>>] : hs \in HotSpots}

ShapeInputs == MonoShapes \cup ColorShapes \cup MaskedShapes \cup UnknownShapes

NoShape == [info |-> [Type |-> 0, Width |-> 0, Height |-> 0, Pitch |-> 0,
                      HotSpot |-> [x |-> 0, y |-> 0]],
            buf  |-> <<>>]

\* what is cached between the two decodes of the payload under test
BetweenShapes ==
    {[info |-> [Type |-> SHAPE_MONOCHROME, Width |-> 2, Height |-> 2, Pitch |-> 1,
                HotSpot |-> [x |-> 1, y |-> 1]],
      buf  |-> <<128, 64>>],
     [info |-> [Type |-> SHAPE_COLOR, Width |-> 1, Height |-> 1, Pitch |-> 4,
                HotSpot |-> [x |-> 0, y |-> 0]],
      buf  |-> <<1, 2, 3, 4>>],
     [info |-> [Type |-> SHAPE_MASKED_COLOR, Width |-> 2, Height |-> 1, Pitch |-> 8,
                HotSpot |-> [x |-> 2, y |-> 0]],
      buf  |-> <<1, 2, 3, 0, 4, 5, 6, 255>>],
     [info |-> [Type |-> 3, Width |-> 1, Height |-> 1, Pitch |-> 4,
                HotSpot |-> [x |-> 0, y |-> 0]],
      buf  |-> <<1, 2, 3, 4>>]}

(***************************************************************************)
(* SpecDecode: with nothing or an earlier shape cached, a payload is       *)
(* decoded, some other shape update is decoded, the payload is decoded     *)
(* again.                                                                  *)
(***************************************************************************)
\* nothing has been drawn at pixel level
BlendIdle ==
    /\ destBefore = <<>>
    /\ destData = <<>>
    /\ written = {}
    /\ drawn = <<>>

\* the statics' initialisers of main_gdi.cpp
GdiInit ==
    /\ g_lastCursor = "null"
    /\ g_cachedHotspotX = 0
    /\ g_cachedHotspotY = 0

PointerIdle ==
    /\ cursorPos = <<>>
    /\ overlay = <<>>
    /\ showing = <<>>

CanvasIdle ==
    /\ canvas = <<>>
    /\ srcFrame = 0
    /\ frameWrites = {}
    /\ cursorOnPad = FALSE

HandlesIdle ==
    /\ owned = {}
    /\ g_UseExcludeFromCapture = FALSE

PaceIdle ==
    /\ elapsed = 0
    /\ sleepArg = -1
    /\ interval = 0

AverageIdle ==
    /\ ticks = 0
    /\ total = 0

MalformedIdle == reads = {}

MagnifierIdle == magTransform = <<>>

NoObjects == [dupl |-> 0, tex |-> 0, srv |-> 0]

ResIdle == made = NoObjects /\ freed = NoObjects

MoreIdle == AverageIdle /\ MalformedIdle /\ MagnifierIdle /\ ResIdle

ExtIdle == BlendIdle /\ GdiInit /\ PointerIdle /\ CanvasIdle /\ HandlesIdle /\ PaceIdle /\ MoreIdle

LoopIdle ==
    /\ g_Running = TRUE
    /\ exitCode = -1
    /\ reported = {}
    /\ g_DeskDupl = "null"
    /\ textures = <<>>
    /\ g_StagingTexture = 0
    /\ g_DesktopSRV = 0
    /\ g_CompositeTexture = <<>>
    /\ g_BackBuffer = <<>>
    /\ presented = <<>>
    /\ frameHeld = 0
    /\ trace = <<>>
    /\ lastHr = "none"
    /\ lastInit = "none"
    /\ recoveryFailed = FALSE
    /\ lost = 0

\* the statics' initialisers: g_CursorBuffer = nullptr, sizes and hotspot 0
CursorInit ==
    /\ g_CursorBuffer = NullBuffer
    /\ g_CursorWidth = 0
    /\ g_CursorHeight = 0
    /\ g_CursorHotspotX = 0
    /\ g_CursorHotspotY = 0

InitDecode ==
    /\ LoopIdle
    /\ variant = "dxgi"
    /\ pc = "decode"
    /\ CursorInit
    /\ phase = "prime"
    /\ shape = NoShape
    /\ history = <<>>
    /\ ExtIdle

\* what the cache holds before the payload under test arrives: nothing yet,
\* or some earlier shape
DecodeEarlier ==
    /\ phase = "prime"
    /\ \/ UNCHANGED cursorVars
       \/ \E s \in BetweenShapes : UpdateCursorShape(s.info, s.buf)
    /\ phase' = "first"
    /\ UNCHANGED <<loopVars, duplVars, shape, history>>
    /\ UNCHANGED extVars

DecodeFirst ==
    /\ phase = "first"
    /\ \E s \in ShapeInputs :
          /\ UpdateCursorShape(s.info, s.buf)
          /\ shape' = s
    /\ history' = <<CursorState'>>
    /\ phase' = "between"
    /\ UNCHANGED <<loopVars, duplVars>>
    /\ UNCHANGED extVars

DecodeBetween ==
    /\ phase = "between"
    /\ \E s \in BetweenShapes : UpdateCursorShape(s.info, s.buf)
    /\ history' = Append(history, CursorState')
    /\ phase' = "again"
    /\ UNCHANGED <<loopVars, duplVars, shape>>
    /\ UNCHANGED extVars

DecodeAgain ==
    /\ phase = "again"
    /\ UpdateCursorShape(shape.info, shape.buf)
    /\ phase' = "done"
    /\ UNCHANGED <<loopVars, duplVars, shape, history>>
    /\ UNCHANGED extVars

NextDecode == DecodeEarlier \/ DecodeFirst \/ DecodeBetween \/ DecodeAgain

SpecDecode == InitDecode /\ [][NextDecode]_vars

\* the cache holds the decoding of the payload under test
Decoded == phase \in {"between", "done"}

\* pixel (x, y) of the cached bitmap, as <<b0, b1, b2, b3>>
CursorPixel(x, y) ==
    LET o == (y * g_CursorWidth + x) * 4
    IN  <<g_CursorBuffer.bytes[o + 1], g_CursorBuffer.bytes[o + 2],
          g_CursorBuffer.bytes[o + 3], g_CursorBuffer.bytes[o + 4]>>

\* bit of column x in raw row r of the payload under test, most significant
\* bit first within a byte, rows at the declared pitch
RawBit(x, r) ==
    (shape.buf[r * shape.info.Pitch + (x \div 8) + 1] \div Pow2(7 - (x % 8))) % 2

\* C6: a Monochrome shape of declared size w x 2h decodes to a w x h bitmap
\* whose pixel (x, y) is opaque black, opaque white, fully transparent or
\* white at alpha 128 according to (AND bit of row y, XOR bit of row y + h)
\* being (0,0), (0,1), (1,0) or (1,1).
MonochromeDecodeRule ==
    (Decoded /\ shape.info.Type = SHAPE_MONOCHROME /\ shape.info.Height % 2 = 0) =>
        LET w == shape.info.Width
            h == shape.info.Height \div 2
        IN  /\ g_CursorWidth = w
            /\ g_CursorHeight = h
            /\ g_CursorBuffer.alloc
            /\ Len(g_CursorBuffer.bytes) = w * h * 4
            /\ \A x \in 0..(w - 1), y \in 0..(h - 1) :
                  LET a == RawBit(x, y)
                      r == RawBit(x, y + h)
                  IN  /\ (a = 0 /\ r = 0) => CursorPixel(x, y) = <<0, 0, 0, 255>>
                      /\ (a = 0 /\ r = 1) => CursorPixel(x, y) = <<255, 255, 255, 255>>
                      /\ (a = 1 /\ r = 0) => CursorPixel(x, y) = <<0, 0, 0, 0>>
                      /\ (a = 1 /\ r = 1) => CursorPixel(x, y) = <<255, 255, 255, 128>>

\* a 9-wide monochrome bitmap (two bytes per row) showing all four cases
MonochromeDecodeWitness ==
    /\ phase = "done"
    /\ shape.info.Type = SHAPE_MONOCHROME
    /\ shape.info.Width = 9
    /\ {CursorPixel(x, 0) : x \in 0..8} =
          {<<0, 0, 0, 255>>, <<255, 255, 255, 255>>, <<0, 0, 0, 0>>, <<255, 255, 255, 128>>}
    /\ CursorPixel(8, 0) = <<0, 0, 0, 0>>

\* C7: a Color shape decodes to rows of exactly the first 4w bytes of each raw
\* row (raw row y starts at y * pitch); the filler between 4w and pitch is
\* not part of the output.
ColorDecodeRule ==
    (Decoded /\ shape.info.Type = SHAPE_COLOR) =>
        LET w == shape.info.Width
            h == shape.info.Height
        IN  /\ g_CursorWidth = w
            /\ g_CursorHeight = h
            /\ g_CursorBuffer.alloc
            /\ Len(g_CursorBuffer.bytes) = 4 * w * h
            /\ \A y \in 0..(h - 1) :
                  SubSeq(g_CursorBuffer.bytes, y * 4 * w + 1, (y + 1) * 4 * w) =
                  SubSeq(shape.buf, y * shape.info.Pitch + 1, y * shape.info.Pitch + 4 * w)

\* a colour bitmap of two rows whose raw rows carry filler
ColorDecodeWitness ==
    /\ phase = "done"
    /\ shape.info.Type = SHAPE_COLOR
    /\ shape.info.Height >= 2
    /\ shape.info.Pitch > 4 * shape.info.Width
    /\ CursorPixel(0, 1) = <<10, 20, 30, 200>>

\* C8: a MaskedColor shape keeps the three colour bytes of every pixel and
\* sets alpha to 128 where the mask byte is 1 and to 255 where it is 0; no
\* pixel gets another alpha.
MaskedColorDecodeRule ==
    (Decoded /\ shape.info.Type = SHAPE_MASKED_COLOR) =>
        LET w == shape.info.Width
            h == shape.info.Height
        IN  /\ g_CursorWidth = w
            /\ g_CursorHeight = h
            /\ g_CursorBuffer.alloc
            /\ Len(g_CursorBuffer.bytes) = 4 * w * h
            /\ \A x \in 0..(w - 1), y \in 0..(h - 1) :
                  LET src == SubSeq(shape.buf, y * shape.info.Pitch + 4 * x + 1,
                                    y * shape.info.Pitch + 4 * x + 4)
                      px  == CursorPixel(x, y)
                  IN  /\ SubSeq(px, 1, 3) = SubSeq(src, 1, 3)
                      /\ src[4] = 1 => px[4] = 128
                      /\ src[4] = 0 => px[4] = 255
                      /\ px[4] \in {128, 255}

\* a masked bitmap with a mask-0 and a mask-1 pixel
MaskedColorDecodeWitness ==
    /\ phase = "done"
    /\ shape.info.Type = SHAPE_MASKED_COLOR
    /\ \E x1, x2 \in 0..(g_CursorWidth - 1) :
          /\ CursorPixel(x1, 0) = <<10, 20, 30, 255>>
          /\ CursorPixel(x2, 0) = <<10, 20, 30, 128>>

S_OK        == "S_OK"
TIMEOUT     == "DXGI_ERROR_WAIT_TIMEOUT"
ACCESS_LOST == "DXGI_ERROR_ACCESS_LOST"
E_OTHER     == "DXGI_ERROR_INVALID_CALL"     \* any other failure code

\* canvas: the frame shown in the render region, the cursor overlay drawn on it
Canvas(f, c) == [frame |-> f, cursor |-> c]
NoCursor == <<>>

\* where InitDesktopDuplication can return false.  "DuplicateOutput" stands
\* for the five calls up to and including DuplicateOutput: none of them has
\* set a global when it fails.
InitFailPoints == {"none", "DuplicateOutput", "CreateTexture2D", "CreateShaderResourceView"}

\* bool InitDesktopDuplication() of main_dxgi.cpp, entered with g_DeskDupl
\* null (WinMain's first call; the recovery branch nulls it just before the
\* call).  A failed Create* call
\* leaves its out-parameter null (COM rule for out-parameters); a created
\* texture has no initial data, so its texels are unspecified; the previous
\* texture and view are overwritten without being released.
InitDesktopDuplication(fail, texels) ==
    IF fail = "DuplicateOutput"
    THEN /\ g_DeskDupl' = "null"
         /\ UNCHANGED <<textures, g_StagingTexture, g_DesktopSRV, made>>
    ELSE IF fail = "CreateTexture2D"
    THEN /\ g_DeskDupl' = "live"
         /\ g_StagingTexture' = 0
         /\ made' = [made EXCEPT !.dupl = @ + 1]
         /\ UNCHANGED <<textures, g_DesktopSRV>>
    ELSE /\ g_DeskDupl' = "live"
         /\ textures' = Append(textures, texels)
         /\ g_StagingTexture' = Len(textures) + 1
         /\ g_DesktopSRV' = IF fail = "none" THEN Len(textures) + 1 ELSE 0
         /\ made' = [dupl |-> made.dupl + 1, tex |-> made.tex + 1,
                     srv |-> made.srv + (IF fail = "none" THEN 1 ELSE 0)]

\* bool InitDesktopDuplication() of main.cpp: only the duplication handle
InitDesktopDuplicationMain(fail) ==
    IF fail = "none"
    THEN /\ g_DeskDupl' = "live"
         /\ made' = [made EXCEPT !.dupl = @ + 1]
         /\ UNCHANGED <<textures, g_StagingTexture, g_DesktopSRV>>
    ELSE UNCHANGED <<duplVars, made>>

\* the MessageBoxA text of each initialisation step of WinMain
StartupSteps ==
    IF variant = "dxgi"
    THEN {"InitWindow", "InitD3D", "InitDesktopDuplication", "InitShaders"}
    ELSE {"InitWindow", "InitD3D", "InitDesktopDuplication"}

Init ==
    /\ variant \in {"dxgi", "main"}
    /\ pc = "start"
    /\ LoopIdle
    /\ CursorInit
    /\ phase = "off"
    /\ shape = NoShape
    /\ history = <<>>
    /\ ExtIdle

\* WinMain up to the loop: each Init* that fails is reported, Cleanup runs
\* (except after InitWindow) and WinMain returns 1
Startup(fail, texels) ==
    /\ pc = "start"
    /\ variant \in {"dxgi", "main"}
    /\ IF fail = "none"
       THEN /\ pc' = "loop"
            /\ IF variant = "dxgi"
               THEN InitDesktopDuplication("none", texels)
               ELSE InitDesktopDuplicationMain("none")
            \* main.cpp InitD3D: the composite texture starts opaque black
            /\ g_CompositeTexture' = IF variant = "main" THEN <<Canvas(Blank, NoCursor)>> ELSE <<>>
            /\ UNCHANGED <<exitCode, reported, freed>>
       ELSE /\ fail \in StartupSteps
            /\ pc' = "exited"
            /\ exitCode' = 1
            /\ reported' = reported \cup {fail}
            /\ g_DeskDupl' = "null"
            /\ g_StagingTexture' = 0
            /\ g_DesktopSRV' = 0
            /\ textures' = IF fail = "InitShaders" THEN <<texels>> ELSE <<>>
            \* what InitDesktopDuplication created before InitShaders failed
            \* is released by Cleanup
            /\ made' = IF fail = "InitShaders" THEN [dupl |-> 1, tex |-> 1, srv |-> 1]
                       ELSE NoObjects
            /\ freed' = made'
            /\ UNCHANGED g_CompositeTexture
    /\ UNCHANGED <<variant, g_Running, g_BackBuffer, presented, frameHeld, trace,
                   lastHr, lastInit, recoveryFailed, lost, cursorVars, decodeVars>>
    /\ UNCHANGED extButRes

\* messages that end the loop: WM_QUIT in all, Escape (via WindowProc) in
\* main.cpp, the Insert hotkey in the others
QuitMessages == IF variant = "main" THEN {"WM_QUIT", "VK_ESCAPE"} ELSE {"WM_QUIT", "WM_HOTKEY"}

\* plausible slip: the tick is not guarded by if (g_Running), so the tick of
\* the iteration that saw the quit message still runs
DrainMessages_KeepTicking(msg) ==
    /\ pc = "loop"
    /\ msg \in QuitMessages \cup {"none"}
    /\ g_Running' = (msg = "none")
    /\ pc' = IF g_Running THEN "tick" ELSE "cleanup"
    /\ UNCHANGED <<variant, exitCode, reported, g_CompositeTexture, g_BackBuffer,
                   presented, frameHeld, trace, lastHr, lastInit, recoveryFailed, lost,
                   duplVars, cursorVars, decodeVars>>
    /\ UNCHANGED extVars

\* top of the loop: drain the message queue, then either tick or leave
DrainMessages(msg) ==
    /\ pc = "loop"
    /\ msg \in QuitMessages \cup {"none"}
    /\ g_Running' = (msg = "none")
    /\ pc' = IF msg = "none" THEN "tick" ELSE "cleanup"
    /\ UNCHANGED <<variant, exitCode, reported, g_CompositeTexture, g_BackBuffer,
                   presented, frameHeld, trace, lastHr, lastInit, recoveryFailed, lost,
                   duplVars, cursorVars, decodeVars>>
    /\ UNCHANGED extVars

(***************************************************************************)
(* Inputs of a tick                                                        *)
(***************************************************************************)
\* shape updates seen in the loop: one the decoder has a branch for and one
\* of an unknown type (SpecDecode covers the payloads themselves)
TickShapes == {s \in BetweenShapes : s.info.Type \in {SHAPE_MASKED_COLOR, 3}}

\* what AcquireNextFrame and the calls of the S_OK branch return
AcquireInputs ==
    {[hr |-> h, qi |-> TRUE, frame |-> 1, shapeSize |-> FALSE, shapeOk |-> FALSE,
      shape |-> NoShape] : h \in {TIMEOUT, ACCESS_LOST, E_OTHER}}
    \cup
    {[hr |-> S_OK, qi |-> q, frame |-> f, shapeSize |-> FALSE, shapeOk |-> FALSE,
      shape |-> NoShape] : q \in BOOLEAN, f \in Contents}
    \cup
    {[hr |-> S_OK, qi |-> q, frame |-> f, shapeSize |-> TRUE, shapeOk |-> FALSE,
      shape |-> NoShape] : q \in BOOLEAN, f \in Contents}
    \cup
    {[hr |-> S_OK, qi |-> q, frame |-> f, shapeSize |-> TRUE, shapeOk |-> TRUE,
      shape |-> s] : q \in BOOLEAN, f \in Contents, s \in TickShapes}

\* the inputs a tick reads, given the acquire's result: the recovery branch
\* reads only InitDesktopDuplication's outcome, the other branches only the
\* render's inputs
NoRender == [curOk |-> FALSE, pos |-> [x |-> 0, y |-> 0], blend |-> "ok"]

\* GetCursorPos and the calls inside DrawCursorOnTexture
CursorPositions == {[x |-> 960, y |-> 540], [x |-> SOURCE_WIDTH, y |-> 0]}
\* blend "Map": the staging CreateTexture2D or the Map inside
\* DrawCursorOnTexture failed (both return before any pixel is written)
RenderInputs ==
    {[curOk |-> FALSE, pos |-> [x |-> 0, y |-> 0], blend |-> "ok"]}
    \cup
    {[curOk |-> TRUE, pos |-> p, blend |-> b] : p \in CursorPositions, b \in {"ok", "Map"}}

(***************************************************************************)
(* CaptureAndRender of main_dxgi.cpp                                       *)
(***************************************************************************)
\* plausible slip: an early exit on a failed texture query, before the release
SuccessCalls_LeakOnQueryFailure(a) ==
    IF ~a.qi THEN <<"QueryInterface">>
    ELSE <<"QueryInterface", "CopyResource">>
         \o (IF a.shapeSize
             THEN <<"GetFramePointerShape">> \o (IF a.shapeOk THEN <<"UpdateCursorShape">> ELSE <<>>)
             ELSE <<>>)
         \o <<"ReleaseFrame">>

\* the calls of the SUCCEEDED(hr) branch, in order
SuccessCalls(a) ==
    <<"QueryInterface">>
    \o (IF a.qi THEN <<"CopyResource">> ELSE <<>>)
    \o (IF a.shapeSize
        THEN <<"GetFramePointerShape">> \o (IF a.shapeOk THEN <<"UpdateCursorShape">> ELSE <<>>)
        ELSE <<>>)
    \o <<"ReleaseFrame">>

\* the cursor is handed to DrawCursorOnTexture: GetCursorPos succeeded, the
\* position is inside the capture area and a buffer is cached
DrawCalled(r, buffer) ==
    /\ r.curOk
    /\ r.pos.x - FIRST_MONITOR_X >= 0
    /\ r.pos.x - FIRST_MONITOR_X < SOURCE_WIDTH
    /\ r.pos.y - FIRST_MONITOR_Y >= 0
    /\ r.pos.y - FIRST_MONITOR_Y < SOURCE_HEIGHT
    /\ buffer.alloc

\* DrawCursorOnTexture: what ends up drawn over the back buffer
DrawCursorOnTexture(r, cur) ==
    IF cur.w = 0 \/ cur.h = 0 \/ r.blend # "ok"
    THEN NoCursor
    ELSE <<[x   |-> ((r.pos.x - FIRST_MONITOR_X) * RENDER_WIDTH) \div SOURCE_WIDTH - cur.hx,
            y   |-> (r.pos.y - FIRST_MONITOR_Y) - cur.hy,
            bmp |-> cur]>>

\* the part after the acquire: clear, draw the quad from g_DesktopSRV, draw
\* the cursor on the back buffer; srv is the view's texture, cur the cache
RenderedCanvas(r, texs, srv, cur) ==
    Canvas(IF srv = 0 THEN Blank ELSE texs[srv],
           IF DrawCalled(r, cur.buf) THEN DrawCursorOnTexture(r, cur) ELSE NoCursor)

\* plausible slip: the cursor is drawn before the quad, which then covers it
RenderCalls_CursorFirst(r, cur) ==
    <<"ClearRenderTargetView">>
    \o (IF DrawCalled(r, cur.buf) THEN <<"DrawCursorOnTexture">> ELSE <<>>)
    \o <<"Draw", "Present">>

\* the calls of the render part of CaptureAndRender, in order
RenderCalls(r, cur) ==
    <<"ClearRenderTargetView", "Draw">>
    \o (IF DrawCalled(r, cur.buf) THEN <<"DrawCursorOnTexture">> ELSE <<>>)
    \o <<"Present">>

\* plausible slip: the branch lacks its return and falls through to the render
RecoverFromAccessLost_NoReturn(fail, texels) ==
    /\ lost < MaxLost
    /\ InitDesktopDuplication(fail, texels)
    /\ lastInit' = IF fail = "none" THEN "ok" ELSE "failed"
    /\ recoveryFailed' = (recoveryFailed \/ fail # "none")
    /\ lost' = lost + 1
    /\ freed' = [freed EXCEPT !.dupl = @ + 1]
    /\ trace' = <<"AcquireNextFrame", "Release(g_DeskDupl)", "InitDesktopDuplication">>
                \o RenderCalls(NoRender, CursorState)
    /\ pc' = "loop"
    /\ presented' = <<RenderedCanvas(NoRender, textures', g_DesktopSRV', CursorState)>>
    /\ g_BackBuffer' = <<>>
    /\ UNCHANGED <<frameHeld, cursorVars>>

\* plausible slip: the duplication is released and the recreation is left to
\* a later tick
RecoverFromAccessLost_Deferred(fail, texels) ==
    /\ lost < MaxLost
    /\ g_DeskDupl' = "null"
    /\ lastInit' = "none"
    /\ lost' = lost + 1
    /\ freed' = [freed EXCEPT !.dupl = @ + 1]
    /\ UNCHANGED made
    /\ trace' = <<"AcquireNextFrame", "Release(g_DeskDupl)">>
    /\ pc' = "loop"
    /\ UNCHANGED <<textures, g_StagingTexture, g_DesktopSRV, recoveryFailed,
                   g_BackBuffer, presented, frameHeld, cursorVars>>

\* the DXGI_ERROR_ACCESS_LOST branch: release the duplication, null it, call
\* InitDesktopDuplication (its result is not looked at), return
RecoverFromAccessLost(fail, texels) ==
    /\ lost < MaxLost
    /\ InitDesktopDuplication(fail, texels)
    /\ lastInit' = IF fail = "none" THEN "ok" ELSE "failed"
    /\ recoveryFailed' = (recoveryFailed \/ fail # "none")
    /\ lost' = lost + 1
    /\ freed' = [freed EXCEPT !.dupl = @ + 1]
    /\ trace' = <<"AcquireNextFrame", "Release(g_DeskDupl)", "InitDesktopDuplication">>
    /\ pc' = "loop"
    /\ UNCHANGED <<g_BackBuffer, presented, frameHeld, cursorVars>>

\* void CaptureAndRender().  fail, texels: outcome of InitDesktopDuplication
\* in the recovery branch; ub: what CopyResource does when g_StagingTexture
\* is null (an earlier recreation failed at CreateTexture2D)
CaptureAndRender(a, r, fail, texels, ub) ==
    /\ pc = "tick"
    /\ variant = "dxgi"
    /\ lastHr' = (IF g_DeskDupl = "null" THEN "none" ELSE a.hr)
    /\ IF g_DeskDupl = "null"
       \* g_DeskDupl->AcquireNextFrame through a null pointer
       THEN /\ pc' = "crashed"
            /\ trace' = <<"AcquireNextFrame">>
            /\ UNCHANGED <<g_BackBuffer, presented, frameHeld, lastInit, recoveryFailed,
                           lost, duplVars, cursorVars>>
       ELSE IF a.hr = ACCESS_LOST
       \* release the duplication, recreate it, return without presenting
       THEN RecoverFromAccessLost(fail, texels)
       ELSE IF a.hr = S_OK /\ a.qi /\ g_StagingTexture = 0 /\ ub = "crash"
       \* CopyResource into a null destination
       THEN /\ pc' = "crashed"
            /\ trace' = <<"AcquireNextFrame", "QueryInterface", "CopyResource">>
            /\ frameHeld' = frameHeld + 1
            /\ UNCHANGED <<g_BackBuffer, presented, lastInit, recoveryFailed, lost,
                           duplVars, cursorVars>>
       ELSE /\ IF a.hr = S_OK /\ a.qi /\ g_StagingTexture # 0
               THEN textures' = [textures EXCEPT ![g_StagingTexture] = a.frame]
               ELSE UNCHANGED textures
            /\ IF a.hr = S_OK /\ a.shapeSize /\ a.shapeOk
               THEN UpdateCursorShape(a.shape.info, a.shape.buf)
               ELSE UNCHANGED cursorVars
            /\ trace' = <<"AcquireNextFrame">>
                        \o (IF a.hr = S_OK THEN SuccessCalls(a) ELSE <<>>)
                        \o RenderCalls(r, CursorState')
            /\ frameHeld' = frameHeld + (IF a.hr = S_OK THEN 1 ELSE 0)
                                      - Count(trace', "ReleaseFrame")
            /\ presented' = <<RenderedCanvas(r, textures', g_DesktopSRV, CursorState')>>
            \* FLIP_DISCARD: the back buffer's contents are undefined after Present
            /\ g_BackBuffer' = <<>>
            /\ pc' = "loop"
            /\ lastInit' = "none"
            /\ UNCHANGED <<g_DeskDupl, g_StagingTexture, g_DesktopSRV, recoveryFailed, lost>>
    /\ shape' = (IF g_DeskDupl # "null" /\ a.hr = S_OK /\ a.shapeSize /\ a.shapeOk
                 /\ pc' # "crashed"
                 THEN a.shape ELSE NoShape)
    /\ (g_DeskDupl = "null" \/ a.hr # ACCESS_LOST) => UNCHANGED resVars
    /\ UNCHANGED <<variant, g_Running, exitCode, reported, g_CompositeTexture, phase, history>>
    /\ UNCHANGED extButRes

(***************************************************************************)
(* RenderFrame of main.cpp                                                 *)
(***************************************************************************)
\* plausible slip: a failed acquire or query is treated as fatal and clears
\* the running flag
RenderFrame_StopOnFailure(a) ==
    /\ pc = "tick"
    /\ variant = "main"
    /\ ~a.shapeSize
    /\ lastHr' = a.hr
    /\ g_CompositeTexture' =
          IF a.hr = S_OK /\ a.qi
          THEN <<Canvas(a.frame, NoCursor)>>
          ELSE g_CompositeTexture
    /\ trace' = <<"AcquireNextFrame">>
                \o (IF a.hr = S_OK
                    THEN <<"QueryInterface">>
                         \o (IF a.qi THEN <<"CopySubresourceRegion">> ELSE <<>>)
                         \o <<"ReleaseFrame">>
                    ELSE <<>>)
                \o <<"CopyResource", "Present">>
    /\ frameHeld' = frameHeld + (IF a.hr = S_OK THEN 1 ELSE 0) - Count(trace', "ReleaseFrame")
    /\ presented' = g_CompositeTexture'
    \* DXGI_SWAP_EFFECT_DISCARD: undefined after Present
    /\ g_BackBuffer' = <<>>
    /\ pc' = "loop"
    /\ lastInit' = "none"
    /\ g_Running' = (a.hr = S_OK /\ a.qi)
    /\ UNCHANGED <<variant, exitCode, reported, recoveryFailed, lost,
                   duplVars, cursorVars, decodeVars>>
    /\ UNCHANGED extVars

\* void RenderFrame(): Timeout and every failure present the composite as it
\* is; a frame is copied into the composite's left part, released, presented
RenderFrame(a) ==
    /\ pc = "tick"
    /\ variant = "main"
    /\ ~a.shapeSize
    /\ lastHr' = a.hr
    /\ g_CompositeTexture' =
          IF a.hr = S_OK /\ a.qi
          THEN <<Canvas(a.frame, NoCursor)>>
          ELSE g_CompositeTexture
    /\ trace' = <<"AcquireNextFrame">>
                \o (IF a.hr = S_OK
                    THEN <<"QueryInterface">>
                         \o (IF a.qi THEN <<"CopySubresourceRegion">> ELSE <<>>)
                         \o <<"ReleaseFrame">>
                    ELSE <<>>)
                \o <<"CopyResource", "Present">>
    /\ frameHeld' = frameHeld + (IF a.hr = S_OK THEN 1 ELSE 0) - Count(trace', "ReleaseFrame")
    /\ presented' = g_CompositeTexture'
    \* DXGI_SWAP_EFFECT_DISCARD: undefined after Present
    /\ g_BackBuffer' = <<>>
    /\ pc' = "loop"
    /\ lastInit' = "none"
    /\ UNCHANGED <<variant, g_Running, exitCode, reported, recoveryFailed, lost,
                   duplVars, cursorVars, decodeVars>>
    /\ UNCHANGED extVars

\* void Cleanup() of both programs, then WinMain returns 0
Cleanup ==
    /\ pc = "cleanup"
    /\ variant \in {"dxgi", "main"}
    /\ g_CursorBuffer' = NullBuffer
    /\ g_DesktopSRV' = 0
    /\ g_StagingTexture' = 0
    /\ g_DeskDupl' = "null"
    /\ g_CompositeTexture' = <<>>
    /\ g_BackBuffer' = <<>>
    /\ freed' = [dupl |-> freed.dupl + (IF g_DeskDupl = "live" THEN 1 ELSE 0),
                  tex |-> freed.tex + (IF g_StagingTexture # 0 THEN 1 ELSE 0),
                  srv |-> freed.srv + (IF g_DesktopSRV # 0 THEN 1 ELSE 0)]
    /\ pc' = "exited"
    /\ exitCode' = 0
    /\ UNCHANGED <<variant, g_Running, reported, textures, presented, frameHeld, trace,
                   lastHr, lastInit, recoveryFailed, lost, g_CursorWidth, g_CursorHeight,
                   g_CursorHotspotX, g_CursorHotspotY, decodeVars, made>>
    /\ UNCHANGED extButRes

Next ==
    \/ \E fail \in {"none", "InitWindow", "InitD3D", "InitDesktopDuplication", "InitShaders"},
          texels \in UninitContents : Startup(fail, texels)
    \/ \E msg \in {"none", "WM_QUIT", "WM_HOTKEY", "VK_ESCAPE"} : DrainMessages(msg)
    \/ \E a \in {i \in AcquireInputs : i.hr = ACCESS_LOST}, fail \in InitFailPoints,
          texels \in UninitContents :
          CaptureAndRender(a, NoRender, fail, texels, "ignored")
    \/ \E a \in {i \in AcquireInputs : i.hr # ACCESS_LOST}, r \in RenderInputs,
          ub \in (IF g_StagingTexture = 0 THEN {"crash", "ignored"} ELSE {"ignored"}) :
          CaptureAndRender(a, r, "none", Blank, ub)
    \/ \E a \in AcquireInputs : RenderFrame(a)
    \/ Cleanup

Spec == Init /\ [][Next]_vars

(***************************************************************************)
(* Properties of the loop                                                  *)
(***************************************************************************)
Calls(s) == {s[i] : i \in DOMAIN s}

\* the calls of sub occur in s in this order
InOrder(s, sub) ==
    \A i \in 1..(Len(sub) - 1) :
        /\ Count(s, sub[i]) >= 1
        /\ Count(s, sub[i + 1]) >= 1
        /\ IndexOf(s, sub[i]) < IndexOf(s, sub[i + 1])

\* C1: in both duplication programs a tick whose acquire succeeded calls
\* ReleaseFrame exactly once, after the acquire, on every path; a tick whose
\* acquire timed out or failed never calls it; no frame is held between
\* ticks or after the loop.
ScopedAcquisition ==
    pc # "crashed" =>
        /\ frameHeld = 0
        /\ lastHr = S_OK =>
              /\ Count(trace, "AcquireNextFrame") = 1
              /\ Count(trace, "ReleaseFrame") = 1
              /\ IndexOf(trace, "AcquireNextFrame") < IndexOf(trace, "ReleaseFrame")
        /\ lastHr # S_OK => Count(trace, "ReleaseFrame") = 0

\* a tick of main_dxgi.cpp whose texture query and shape fetch both failed
ScopedAcquisitionWitness ==
    /\ variant = "dxgi"
    /\ pc = "loop"
    /\ lastHr = S_OK
    /\ "CopyResource" \notin Calls(trace)
    /\ "GetFramePointerShape" \in Calls(trace)
    /\ "UpdateCursorShape" \notin Calls(trace)
    /\ "ReleaseFrame" \in Calls(trace)

\* C2: a tick whose acquire times out presents, in the render region, the
\* frame the previously presented canvas showed.
TimeoutPresentsLastCanvas ==
    [][(pc = "tick" /\ lastHr' = TIMEOUT /\ presented # <<>>) =>
          (presented' # <<>> /\ presented'[1].frame = presented[1].frame)]_vars

\* C3: a tick whose acquire reports device loss writes nothing to the canvas
\* and calls the acquire once.
DeviceLostLeavesCanvas ==
    [][(pc = "tick" /\ lastHr' = ACCESS_LOST) =>
          /\ g_BackBuffer' = g_BackBuffer
          /\ g_CompositeTexture' = g_CompositeTexture
          /\ variant = "dxgi" => presented' = presented
          /\ Count(trace', "AcquireNextFrame") = 1]_vars

\* a recovering tick of main_dxgi.cpp with a canvas presented before it
DeviceLostLeavesCanvasWitness ==
    /\ variant = "dxgi"
    /\ pc = "loop"
    /\ lastHr = ACCESS_LOST
    /\ lastInit = "ok"
    /\ presented # <<>>
    /\ presented[1].frame \in Contents

\* C4: in main_dxgi.cpp a tick that observes device loss releases the
\* duplication and calls InitDesktopDuplication once, inside that tick; when
\* that call succeeded the next tick acquires on the new duplication and,
\* unless it observes a loss again, draws and presents.
RecreatedOnceThenRunning ==
    [][/\ (variant = "dxgi" /\ pc = "tick" /\ lastHr' = ACCESS_LOST) =>
             /\ trace' = <<"AcquireNextFrame", "Release(g_DeskDupl)", "InitDesktopDuplication">>
             /\ lastInit' \in {"ok", "failed"}
             /\ lastInit' = "ok" => g_DeskDupl' = "live"
       /\ (variant = "dxgi" /\ pc = "tick" /\ lastHr = ACCESS_LOST /\ lastInit = "ok") =>
             /\ pc' = "loop"
             /\ Head(trace') = "AcquireNextFrame"
             /\ lastHr' # ACCESS_LOST =>
                   /\ InOrder(trace', <<"AcquireNextFrame", "Draw", "Present">>)
                   /\ presented' # <<>>]_vars

\* the tick after a successful recreation composited a fresh frame
RecreatedOnceThenRunningWitness ==
    /\ variant = "dxgi"
    /\ pc = "loop"
    /\ lost = 1
    /\ lastHr = S_OK
    /\ Len(textures) = 2
    /\ g_DesktopSRV = 2
    /\ "CopyResource" \in Calls(trace)
    /\ presented # <<>>
    /\ presented[1].frame = textures[2]

\* C5: once a recreation after device loss has failed, the loop is stopped
\* and the failure has been reported.
RecreationFailureStops ==
    recoveryFailed => (~g_Running /\ reported # {})

\* the cached CursorBitmap, <<>> when there is none
CachedBitmap == IF g_CursorBuffer.alloc THEN <<CursorState>> ELSE <<>>

\* C10: a pointer-shape update that cannot be decoded (fetch failed, or a
\* type other than Monochrome / Color / MaskedColor) leaves the cached cursor
\* bitmap (pixels, size, hotspot) as it was, and leaves none if there was none.
UndecodableUpdateKeepsCursor ==
    [][(/\ pc = "tick"
        /\ pc' = "loop"
        /\ "GetFramePointerShape" \in Calls(trace')
        /\ \/ "UpdateCursorShape" \notin Calls(trace')
           \/ shape'.info.Type \notin {SHAPE_MONOCHROME, SHAPE_COLOR, SHAPE_MASKED_COLOR})
       => CachedBitmap' = CachedBitmap]_vars

(***************************************************************************)
(* SpecBlend: DrawCursorOnTexture of main_dxgi.cpp at texel level          *)
(*                                                                         *)
(* The back buffer is 1920 x 1080 texels of 4 bytes (B, G, R, A), rows     *)
(* RowPitch bytes apart.  Only the texels around the cursor rectangle are  *)
(* kept: destBefore and destData map the byte offset of a texel            *)
(* (destY * RowPitch + destX * 4) to its four bytes.                       *)
(***************************************************************************)
\* destTexture->GetDesc(&desc) for g_BackBuffer: the swap chain's size
BackBufferDesc == [Width |-> OUTPUT_WIDTH, Height |-> OUTPUT_HEIGHT]

\* the value an int expression leaves in a BYTE
Byte(v) == v % 256

\* plausible slip: the destination alpha is left as it was
BlendPixel_KeepDestAlpha(src, dest) ==
    LET srcA == src[4]
    IN  IF srcA = 0 THEN dest
        ELSE IF srcA = 255 THEN <<src[1], src[2], src[3], dest[4]>>
        ELSE <<Byte((src[1] * srcA + dest[1] * (255 - srcA)) \div 255),
               Byte((src[2] * srcA + dest[2] * (255 - srcA)) \div 255),
               Byte((src[3] * srcA + dest[3] * (255 - srcA)) \div 255),
               dest[4]>>

\* the body of the inner loop: what cursor texel src does to texel dest
BlendPixel(src, dest) ==
    LET srcA == src[4]
    IN  IF srcA = 0 THEN dest
        ELSE IF srcA = 255 THEN <<src[1], src[2], src[3], 255>>
        ELSE <<Byte((src[1] * srcA + dest[1] * (255 - srcA)) \div 255),
               Byte((src[2] * srcA + dest[2] * (255 - srcA)) \div 255),
               Byte((src[3] * srcA + dest[3] * (255 - srcA)) \div 255),
               255>>

\* plausible slip: > instead of >= lets the row and the column just past the
\* edge through
InsideTexture_InclusiveEdge(destX, destY, desc) ==
    /\ ~(destY < 0 \/ destY > desc.Height)
    /\ ~(destX < 0 \/ destX > desc.Width)

\* the two "continue" tests of the loops
InsideTexture(destX, destY, desc) ==
    /\ ~(destY < 0 \/ destY >= desc.Height)
    /\ ~(destX < 0 \/ destX >= desc.Width)

\* the loops over the cached bitmap, given the texels copied from the
\* destination: the texels after the loops and the byte offsets stored to
DrawCursorTexels(drawX, drawY, desc, RowPitch, before) ==
    LET hit == {p \in (0..(g_CursorWidth - 1)) \X (0..(g_CursorHeight - 1)) :
                   /\ InsideTexture(drawX + p[1], drawY + p[2], desc)
                   /\ CursorPixel(p[1], p[2])[4] > 0}
        destIdx(p) == (drawY + p[2]) * RowPitch + (drawX + p[1]) * 4
    IN  [destData |-> [i \in DOMAIN before |->
                          IF \E p \in hit : destIdx(p) = i
                          THEN LET p == CHOOSE q \in hit : destIdx(q) = i
                               IN  BlendPixel(CursorPixel(p[1], p[2]), before[i])
                          ELSE before[i]],
         written  |-> UNION {{destIdx(p) + k : k \in 0..3} : p \in hit}]

\* cursor bitmaps as GetFramePointerShape delivers them (COLOR shapes: the
\* decoder copies them unchanged, so every texel value can be cached)
BlendPalette == {<<10, 20, 30, 0>>, <<255, 0, 128, 1>>, <<200, 100, 50, 128>>,
                 <<0, 255, 7, 254>>, <<1, 2, 3, 255>>}
\* HotSpot is a POINT: a negative hotspot puts the bitmap right of the pointer
BlendHotSpots == {[x |-> 0, y |-> 0], [x |-> 1, y |-> 1], [x |-> -480, y |-> 0]}
BlendDims == {d \in (1..MaxBlendPixels) \X (1..MaxBlendPixels) : d[1] * d[2] <= MaxBlendPixels}
BlendShapes ==
    UNION {{[info |-> [Type |-> SHAPE_COLOR, Width |-> d[1], Height |-> d[2],
                       Pitch |-> 4 * d[1], HotSpot |-> hs],
             buf  |-> PixelPayload(d[1], d[2], 4 * d[1], px)]
              : px \in [1..(d[1] * d[2]) -> BlendPalette], hs \in BlendHotSpots}
           : d \in BlendDims}
    \cup
    \* one texel, every alpha
    {[info |-> [Type |-> SHAPE_COLOR, Width |-> 1, Height |-> 1, Pitch |-> 4,
                HotSpot |-> [x |-> 0, y |-> 0]],
      buf  |-> <<255, 0, 77, a>>] : a \in 0..255}

\* GetCursorPos results, the failure of a call inside DrawCursorOnTexture
BlendRenderInputs ==
    {[curOk |-> TRUE, pos |-> [x |-> px, y |-> py], blend |-> b] :
        px \in {0, 960, SOURCE_WIDTH - 1}, py \in {0, SOURCE_HEIGHT - 1}, b \in {"ok", "Map"}}

\* mapped.RowPitch: at least one row of texels
RowPitches == {OUTPUT_WIDTH * 4, OUTPUT_WIDTH * 4 + 256}

\* what the Draw call left in the back buffer; the alpha of a sampled desktop
\* texel is whatever the duplication delivered
Backgrounds == {"black", "white", "desktop"}
BackgroundTexel(bg, X, Y) ==
    IF bg = "black" THEN <<0, 0, 0, 255>>
    ELSE IF bg = "white" THEN <<255, 255, 255, 255>>
    ELSE <<(X * 7 + Y) % 256, (X + Y * 3) % 256, 200, 0>>

\* the texels kept: the cursor rectangle and one texel around it, inside the
\* texture
BlendWindow(drawX, drawY, desc) ==
    {q \in ((drawX - 1)..(drawX + g_CursorWidth)) \X ((drawY - 1)..(drawY + g_CursorHeight)) :
        q[1] >= 0 /\ q[1] < desc.Width /\ q[2] >= 0 /\ q[2] < desc.Height}

InitBlend ==
    /\ LoopIdle
    /\ variant = "dxgi"
    /\ pc = "blend"
    /\ CursorInit
    /\ phase = "shape"
    /\ shape = NoShape
    /\ history = <<>>
    /\ ExtIdle

\* a frame brings a pointer shape: it is decoded into the cache
BlendShape ==
    /\ pc = "blend"
    /\ phase = "shape"
    /\ \E s \in BlendShapes :
          /\ UpdateCursorShape(s.info, s.buf)
          /\ shape' = s
    /\ phase' = "draw"
    /\ UNCHANGED <<loopVars, duplVars, history, extVars>>

\* the cursor part of CaptureAndRender: position test, scaling, and
\* DrawCursorOnTexture(g_BackBuffer, scaledCursorX, scaledCursorY)
BlendDraw ==
    /\ pc = "blend"
    /\ phase = "draw"
    /\ \E r \in BlendRenderInputs, pitch \in RowPitches, bg \in Backgrounds :
          LET desc   == BackBufferDesc
              drawX  == ((r.pos.x - FIRST_MONITOR_X) * RENDER_WIDTH) \div SOURCE_WIDTH
                        - g_CursorHotspotX
              drawY  == (r.pos.y - FIRST_MONITOR_Y) - g_CursorHotspotY
              before == [i \in {q[2] * pitch + q[1] * 4 : q \in BlendWindow(drawX, drawY, desc)}
                           |-> BackgroundTexel(bg, (i % pitch) \div 4, i \div pitch)]
              called == /\ DrawCalled(r, g_CursorBuffer)
                        /\ DrawCursorOnTexture(r, CursorState) # NoCursor
              out    == DrawCursorTexels(drawX, drawY, desc, pitch, before)
          IN  /\ destBefore' = before
              /\ destData' = IF called THEN out.destData ELSE before
              /\ written' = IF called THEN out.written ELSE {}
              /\ drawn' = <<[drawX |-> drawX, drawY |-> drawY, RowPitch |-> pitch,
                             called |-> called]>>
    /\ phase' = "drawn"
    /\ UNCHANGED <<loopVars, duplVars, cursorVars, shape, history, gdiVars, pointerVars, canvasVars, handleVars, paceVars, moreVars>>

NextBlend == BlendShape \/ BlendDraw

SpecBlend == InitBlend /\ [][NextBlend]_vars

\* the cursor texels whose destination lies inside the back buffer
OnCanvas ==
    {p \in (0..(g_CursorWidth - 1)) \X (0..(g_CursorHeight - 1)) :
        /\ drawn[1].drawX + p[1] >= 0
        /\ drawn[1].drawX + p[1] < OUTPUT_WIDTH
        /\ drawn[1].drawY + p[2] >= 0
        /\ drawn[1].drawY + p[2] < OUTPUT_HEIGHT}

\* byte offset of the destination texel of cursor texel p
TexelOffset(p) ==
    (drawn[1].drawY + p[2]) * drawn[1].RowPitch + (drawn[1].drawX + p[1]) * 4

\* C11: for every cursor texel that maps inside the canvas, alpha 0 leaves
\* the destination texel as it was, alpha 255 copies the three colour
\* channels, an alpha in between sets each colour channel to
\* floor((src * alpha + dst * (255 - alpha)) / 255), a value in 0..255, and
\* in both non-zero cases the destination alpha becomes 255.
CursorBlendRule ==
    (pc = "blend" /\ phase = "drawn" /\ drawn[1].called) =>
        \A p \in OnCanvas :
            LET src == CursorPixel(p[1], p[2])
                a   == src[4]
                dst == destBefore[TexelOffset(p)]
                out == destData[TexelOffset(p)]
            IN  /\ a = 0 => out = dst
                /\ a = 255 => out = <<src[1], src[2], src[3], 255>>
                /\ (a > 0 /\ a < 255) =>
                      /\ \A c \in 1..3 :
                            /\ out[c] = (src[c] * a + dst[c] * (255 - a)) \div 255
                            /\ out[c] \in 0..255
                      /\ out[4] = 255

\* a half-transparent texel was blended into a desktop texel: the result is
\* neither the source nor the destination colour
CursorBlendRuleWitness ==
    /\ pc = "blend"
    /\ phase = "drawn"
    /\ drawn[1].called
    /\ \E p \in OnCanvas :
          /\ CursorPixel(p[1], p[2])[4] = 128
          /\ destData[TexelOffset(p)][1] # CursorPixel(p[1], p[2])[1]
          /\ destData[TexelOffset(p)][1] # destBefore[TexelOffset(p)][1]

\* C12: the bytes stored to are exactly those of the destination texels of
\* the cursor texels with alpha > 0 that map inside the canvas; every other
\* texel, edge texels included, is as before, and every store is inside the
\* mapped buffer and inside the texel part of its row.
CursorClipRule ==
    (pc = "blend" /\ phase = "drawn") =>
        LET blended == IF drawn[1].called
                       THEN {p \in OnCanvas : CursorPixel(p[1], p[2])[4] > 0}
                       ELSE {}
        IN  /\ written = UNION {{TexelOffset(p) + k : k \in 0..3} : p \in blended}
            /\ \A i \in written :
                  /\ i >= 0
                  /\ i < drawn[1].RowPitch * OUTPUT_HEIGHT
                  /\ i % drawn[1].RowPitch < OUTPUT_WIDTH * 4
            /\ \A i \in DOMAIN destData :
                  (\A p \in blended : TexelOffset(p) # i) => destData[i] = destBefore[i]

\* a bitmap hanging over the top-left corner: some opaque texel is cut off,
\* some is drawn
CursorClipRuleWitness ==
    /\ pc = "blend"
    /\ phase = "drawn"
    /\ drawn[1].called
    /\ drawn[1].drawX < 0
    /\ written # {}
    /\ \E p \in (0..(g_CursorWidth - 1)) \X (0..(g_CursorHeight - 1)) :
          p \notin OnCanvas /\ CursorPixel(p[1], p[2])[4] > 0

(***************************************************************************)
(* The cursor part of CaptureAndRender of main_gdi.cpp                     *)
(***************************************************************************)
\* (int)d for a double d = a / b: truncation toward zero
TruncDiv(a, b) == IF a >= 0 THEN a \div b ELSE -((-a) \div b)

\* the cursors of the system: handle -> hotspot that GetIconInfo reports
IconHotSpot(hCursor) ==
    IF hCursor = "IDC_ARROW" THEN [x |-> 0, y |-> 0]
    ELSE IF hCursor = "IDC_IBEAM" THEN [x |-> 8, y |-> 9]
    ELSE [x |-> 1, y |-> 1]
Cursors == {"IDC_ARROW", "IDC_IBEAM", "IDC_CROSS"}

\* if (ci.hCursor != g_lastCursor): remember the handle, and the hotspot
\* when GetIconInfo succeeds
GdiCacheCursor(ci) ==
    IF ci.ok /\ ci.hCursor # g_lastCursor
    THEN /\ g_lastCursor' = ci.hCursor
         /\ IF ci.iconOk
            THEN /\ g_cachedHotspotX' = IconHotSpot(ci.hCursor).x
                 /\ g_cachedHotspotY' = IconHotSpot(ci.hCursor).y
            ELSE UNCHANGED <<g_cachedHotspotX, g_cachedHotspotY>>
    ELSE UNCHANGED gdiVars

\* plausible slip: the right and bottom bounds are taken inclusive
GdiDrawCalled_InclusiveEdge(ci) ==
    /\ ci.ok
    /\ ci.pos.x - FIRST_MONITOR_X >= 0
    /\ ci.pos.x - FIRST_MONITOR_X <= SOURCE_WIDTH
    /\ ci.pos.y - FIRST_MONITOR_Y >= 0
    /\ ci.pos.y - FIRST_MONITOR_Y <= SOURCE_HEIGHT

\* GetCursorInfo succeeded with CURSOR_SHOWING and the pointer is inside the
\* first monitor
GdiDrawCalled(ci) ==
    /\ ci.ok
    /\ ci.pos.x - FIRST_MONITOR_X >= 0
    /\ ci.pos.x - FIRST_MONITOR_X < SOURCE_WIDTH
    /\ ci.pos.y - FIRST_MONITOR_Y >= 0
    /\ ci.pos.y - FIRST_MONITOR_Y < SOURCE_HEIGHT

\* DrawIconEx(g_hdcMemory, cursorX, cursorY, hCursorToDraw, 0, 0, ...): the
\* cursor at its own size with its top-left at (cursorX, cursorY); hx, hy
\* are the cached hotspot at the time of the call
GdiDrawIcon(ci, hx, hy) ==
    IF GdiDrawCalled(ci)
    THEN <<[x   |-> TruncDiv((ci.pos.x - FIRST_MONITOR_X) * RENDER_WIDTH, SOURCE_WIDTH)
                    - TruncDiv(hx * RENDER_WIDTH, SOURCE_WIDTH),
            y   |-> TruncDiv((ci.pos.y - FIRST_MONITOR_Y) * RENDER_HEIGHT, SOURCE_HEIGHT)
                    - TruncDiv(hy * RENDER_HEIGHT, SOURCE_HEIGHT),
            bmp |-> ci.hCursor]>>
    ELSE NoCursor

(***************************************************************************)
(* SpecPointer: the pointer position handed to the cursor drawing of       *)
(* main_dxgi.cpp and main_gdi.cpp                                          *)
(***************************************************************************)
PointerPositions ==
    {[x |-> px, y |-> py] :
        px \in {FIRST_MONITOR_X - 1, FIRST_MONITOR_X, FIRST_MONITOR_X + 1, FIRST_MONITOR_X + 959,
                FIRST_MONITOR_X + SOURCE_WIDTH - 1, FIRST_MONITOR_X + SOURCE_WIDTH},
        py \in {FIRST_MONITOR_Y - 1, FIRST_MONITOR_Y, FIRST_MONITOR_Y + 540,
                FIRST_MONITOR_Y + SOURCE_HEIGHT - 1, FIRST_MONITOR_Y + SOURCE_HEIGHT}}

PointerRenderInputs ==
    {[curOk |-> ok, pos |-> p, blend |-> "ok"] : ok \in BOOLEAN, p \in PointerPositions}

GdiCursorInputs ==
    {[ok |-> ok, hCursor |-> h, iconOk |-> i, pos |-> p] :
        ok \in BOOLEAN, h \in Cursors, i \in BOOLEAN, p \in PointerPositions}

InitPointer ==
    /\ LoopIdle
    /\ variant \in {"dxgi", "gdi"}
    /\ pc = "pointer"
    /\ CursorInit
    /\ phase = "shape"
    /\ shape = NoShape
    /\ history = <<>>
    /\ ExtIdle

\* main_dxgi.cpp: a frame brings a pointer shape (or none has arrived yet)
PointerShape ==
    /\ pc = "pointer"
    /\ variant = "dxgi"
    /\ phase = "shape"
    /\ \/ UNCHANGED <<cursorVars, shape>>
       \/ \E s \in BetweenShapes :
             /\ UpdateCursorShape(s.info, s.buf)
             /\ shape' = s
    /\ phase' = "draw"
    /\ UNCHANGED <<loopVars, duplVars, history, extVars>>

\* main_dxgi.cpp: the cursor part of CaptureAndRender.  The visibility flag
\* (frameInfo.PointerPosition.Visible, CURSOR_SHOWING) is read nowhere, and
\* g_CursorVisible is never read or written
PointerDraw ==
    /\ pc = "pointer"
    /\ variant = "dxgi"
    /\ phase = "draw"
    /\ \E v \in BOOLEAN : showing' = <<v>>
    /\ \E r \in PointerRenderInputs :
          /\ cursorPos' = <<r.pos>>
          /\ overlay' = IF DrawCalled(r, g_CursorBuffer)
                        THEN DrawCursorOnTexture(r, CursorState)
                        ELSE NoCursor
    /\ phase' = "drawn"
    /\ UNCHANGED <<loopVars, duplVars, cursorVars, shape, history, blendVars, gdiVars, canvasVars, handleVars, paceVars, moreVars>>

\* main_gdi.cpp: the cursor part of CaptureAndRender, in an earlier tick and
\* in the tick under test; ci.ok is GetCursorInfo(&ci) && (ci.flags &
\* CURSOR_SHOWING), so it is false whenever the flag is
PointerDrawGdi ==
    /\ pc = "pointer"
    /\ variant = "gdi"
    /\ phase \in {"shape", "draw"}
    /\ \E ci \in GdiCursorInputs :
          /\ \E v \in BOOLEAN : (ci.ok => v) /\ showing' = <<v>>
          /\ GdiCacheCursor(ci)
          /\ cursorPos' = <<ci.pos>>
          /\ overlay' = GdiDrawIcon(ci, g_cachedHotspotX', g_cachedHotspotY')
    /\ phase' = IF phase = "shape" THEN "draw" ELSE "drawn"
    /\ UNCHANGED <<loopVars, duplVars, cursorVars, shape, history, blendVars, canvasVars, handleVars, paceVars, moreVars>>

NextPointer == PointerShape \/ PointerDraw \/ PointerDrawGdi

SpecPointer == InitPointer /\ [][NextPointer]_vars

\* the pointer position read by the last tick lies inside the source rectangle
InSourceRect ==
    /\ cursorPos[1].x >= FIRST_MONITOR_X
    /\ cursorPos[1].x < FIRST_MONITOR_X + SOURCE_WIDTH
    /\ cursorPos[1].y >= FIRST_MONITOR_Y
    /\ cursorPos[1].y < FIRST_MONITOR_Y + SOURCE_HEIGHT

\* C13: a pointer whose position lies outside the source rectangle is not
\* drawn in that tick, in main_dxgi.cpp and in main_gdi.cpp.
PointerOutsideNotDrawn ==
    (pc = "pointer" /\ cursorPos # <<>> /\ ~InSourceRect) => overlay = NoCursor

\* main_dxgi.cpp with a bitmap of hotspot (0,0) cached and the pointer at
\* source x = 1920, y = 0: nothing is drawn
PointerOutsideNotDrawnWitness ==
    /\ pc = "pointer"
    /\ variant = "dxgi"
    /\ phase = "drawn"
    /\ g_CursorBuffer.alloc
    /\ g_CursorHotspotX = 0
    /\ g_CursorHotspotY = 0
    /\ cursorPos = <<[x |-> FIRST_MONITOR_X + SOURCE_WIDTH, y |-> FIRST_MONITOR_Y]>>
    /\ overlay = NoCursor

\* the hotspot the program holds for the bitmap the last tick drew
DrawnHotSpot ==
    IF variant = "gdi" THEN [x |-> g_cachedHotspotX, y |-> g_cachedHotspotY]
    ELSE [x |-> overlay[1].bmp.hx, y |-> overlay[1].bmp.hy]

\* C14: whenever a tick draws the pointer, the bitmap's hotspot texel lands
\* on the pointer position translated to the source rectangle and scaled by
\* RENDER_WIDTH / SOURCE_WIDTH and RENDER_HEIGHT / SOURCE_HEIGHT.
HotspotOnScaledPosition ==
    (pc = "pointer" /\ overlay # NoCursor) =>
        /\ overlay[1].x + DrawnHotSpot.x
              = ((cursorPos[1].x - FIRST_MONITOR_X) * RENDER_WIDTH) \div SOURCE_WIDTH
        /\ overlay[1].y + DrawnHotSpot.y
              = ((cursorPos[1].y - FIRST_MONITOR_Y) * RENDER_HEIGHT) \div SOURCE_HEIGHT

(***************************************************************************)
(* SpecCanvas: the output canvas at pixel level.  The canvas is the back   *)
(* buffer in main_dxgi.cpp, g_CompositeTexture in main.cpp and the DIB     *)
(* section behind g_hdcMemory in main_gdi.cpp; all are OUTPUT_WIDTH x      *)
(* OUTPUT_HEIGHT, and the model follows them at sample pixels.             *)
(***************************************************************************)
SampleColumns == {0, RENDER_WIDTH - 1, RENDER_WIDTH, RENDER_WIDTH + 1, OUTPUT_WIDTH - 1}
SampleRows == {0, 540, OUTPUT_HEIGHT - 1}
SamplePixels == SampleColumns \X SampleRows

OpaqueBlack == <<0, 0, 0, 255>>

\* a texel of desktop content f at source position (X, Y)
DesktopTexel(f, X, Y) == <<(f * 50 + X) % 256, (X + Y * 3) % 256, 200, 255>>

\* contents of a resource that was created without initial data
UnspecifiedTexels == {<<0, 0, 0, 0>>, <<205, 205, 205, 205>>, OpaqueBlack}

RenderRect == {p \in SamplePixels : p[1] < RENDER_WIDTH /\ p[2] < RENDER_HEIGHT}
PadRegion == {p \in SamplePixels : p[1] >= RENDER_WIDTH /\ p[1] < OUTPUT_WIDTH}

\* PS of main_dxgi.cpp at the pixel centre of column c of the fullscreen
\* quad: input.tex.x = (c + 0.5) / OUTPUT_WIDTH, tested against 0.75f
InRenderArea(c) == (2 * c + 1) * 4 <= 3 * (2 * OUTPUT_WIDTH)

\* PS: sample the desktop texture stretched over the render area, or black
PS(p, f) ==
    IF InRenderArea(p[1])
    THEN IF f = 0 THEN <<0, 0, 0, 0>>
         ELSE DesktopTexel(f, ((2 * p[1] + 1) * SOURCE_WIDTH) \div (2 * RENDER_WIDTH), p[2])
    ELSE OpaqueBlack

\* the cursor texels a tick draws: ov is <<>> or <<[x, y, w, h]>>, limit the
\* rectangle the drawing is confined to
CursorFootprint(ov, limit) ==
    IF ov = <<>> THEN {}
    ELSE {p \in SamplePixels :
            /\ p[1] >= ov[1].x /\ p[1] < ov[1].x + ov[1].w
            /\ p[2] >= ov[1].y /\ p[2] < ov[1].y + ov[1].h
            /\ p[1] < limit.w /\ p[2] < limit.h}

CursorTexel == <<255, 255, 255, 255>>

\* cursor rectangles of a tick, top-left in canvas coordinates
CanvasCursors ==
    {<<>>}
    \cup {<<[x |-> cx, y |-> cy, w |-> 8, h |-> 8]>> :
             cx \in {-4, 0, 720, RENDER_WIDTH - 8, RENDER_WIDTH - 4, RENDER_WIDTH - 1},
             cy \in {-4, 536, OUTPUT_HEIGHT - 4}}

CanvasOutcomes == {"frame", "Timeout", "DeviceLost"}

InitCanvas ==
    /\ LoopIdle
    /\ variant \in {"dxgi", "main", "gdi"}
    /\ pc = "canvas"
    /\ CursorInit
    /\ phase = "create"
    /\ shape = NoShape
    /\ history = <<>>
    /\ ExtIdle

\* initialization of the canvas: InitD3D of main_dxgi.cpp creates the swap
\* chain and never writes the back buffer; InitD3D of main.cpp creates the
\* composite texture from blackPixels; InitGDI fills the DIB section
CanvasCreate ==
    /\ pc = "canvas"
    /\ phase = "create"
    /\ IF variant = "dxgi"
       THEN \E u \in UnspecifiedTexels : canvas' = [p \in SamplePixels |-> u]
       ELSE canvas' = [p \in SamplePixels |-> OpaqueBlack]
    /\ phase' = "run"
    /\ UNCHANGED <<loopVars, duplVars, cursorVars, shape, history, blendVars,
                   gdiVars, pointerVars, srcFrame, frameWrites, cursorOnPad, handleVars, paceVars, moreVars>>

\* one tick of main_dxgi.cpp: ACCESS_LOST returns before the clear; every
\* other outcome clears the target, draws the quad and then the cursor
CanvasTickDxgi(o, f, ov) ==
    LET cur == CursorFootprint(ov, [w |-> OUTPUT_WIDTH, h |-> OUTPUT_HEIGHT])
        src == IF o = "frame" THEN f ELSE srcFrame
    IN  /\ variant = "dxgi"
        /\ srcFrame' = src
        /\ IF o = "DeviceLost"
           THEN /\ frameWrites' = {}
                /\ UNCHANGED <<canvas, cursorOnPad>>
           ELSE /\ frameWrites' = SamplePixels
                /\ canvas' = [p \in SamplePixels |->
                                 IF p \in cur THEN CursorTexel ELSE PS(p, src)]
                /\ cursorOnPad' = (cursorOnPad \/ cur \cap PadRegion # {})

\* one tick of main.cpp: only a frame update copies into the composite
CanvasTickMain(o, f) ==
    /\ variant = "main"
    /\ UNCHANGED cursorOnPad
    /\ srcFrame' = IF o = "frame" THEN f ELSE srcFrame
    /\ IF o = "frame"
       THEN /\ frameWrites' = RenderRect
            /\ canvas' = [p \in SamplePixels |->
                             IF p \in RenderRect THEN DesktopTexel(f, p[1], p[2])
                             ELSE canvas[p]]
       ELSE /\ frameWrites' = {}
            /\ UNCHANGED canvas

\* one tick of main_gdi.cpp: StretchBlt into the render rectangle, then the
\* cursor under the clip region
CanvasTickGdi(f, ov) ==
    LET cur == CursorFootprint(ov, [w |-> RENDER_WIDTH, h |-> RENDER_HEIGHT])
    IN  /\ variant = "gdi"
        /\ srcFrame' = f
        /\ frameWrites' = RenderRect
        /\ canvas' = [p \in SamplePixels |->
                         IF p \in cur THEN CursorTexel
                         ELSE IF p \in RenderRect
                              THEN DesktopTexel(f, (p[1] * SOURCE_WIDTH) \div RENDER_WIDTH,
                                                   (p[2] * SOURCE_HEIGHT) \div RENDER_HEIGHT)
                              ELSE canvas[p]]
        /\ cursorOnPad' = (cursorOnPad \/ cur \cap PadRegion # {})

CanvasTick ==
    /\ pc = "canvas"
    /\ phase = "run"
    /\ \E o \in CanvasOutcomes, f \in Contents, ov \in CanvasCursors :
          \/ CanvasTickDxgi(o, f, ov)
          \/ CanvasTickMain(o, f)
          \/ (o = "frame" /\ CanvasTickGdi(f, ov))
    /\ UNCHANGED <<loopVars, duplVars, cursorVars, shape, phase, history, blendVars,
                   gdiVars, pointerVars, handleVars, paceVars, moreVars>>

NextCanvas == CanvasCreate \/ CanvasTick

SpecCanvas == InitCanvas /\ [][NextCanvas]_vars

\* C15: every pad-region pixel is opaque black right after initialization
\* and after any number of ticks in which the cursor did not overlap the
\* pad region.
PadRegionKeepsPadColour ==
    (pc = "canvas" /\ phase = "run" /\ ~cursorOnPad) =>
        \A p \in PadRegion : canvas[p] = OpaqueBlack

\* C16: in every tick the canvas pixels written by the frame composite lie
\* inside the render rectangle; the pad region is written at initialization
\* only.
FrameWritesInsideRenderRect ==
    pc = "canvas" => frameWrites \subseteq RenderRect

(***************************************************************************)
(* SpecLoop: WinMain of main_gdi.cpp and main_magnifier.cpp, next to the   *)
(* two programs of Spec                                                    *)
(***************************************************************************)
GdiHandles == {"g_hWnd", "g_hdcWindow", "g_hdcScreen", "g_hdcMemory", "g_hBitmap", "g_hClipRgn"}
MagnifierHandles == {"Magnification", "g_hHostWnd", "g_hMagWnd", "g_hBlackWnd"}

\* the steps of WinMain of main_gdi.cpp that can fail
GdiStartupSteps == {"InitWindow", "InitGDI"}

\* WinMain of main_gdi.cpp up to the loop: a failed InitWindow or InitGDI is
\* reported with MessageBoxA and WinMain returns 1 (after Cleanup for
\* InitGDI); exclude: SetWindowDisplayAffinity(WDA_EXCLUDEFROMCAPTURE) worked
StartupGdi(fail, exclude) ==
    /\ pc = "start"
    /\ variant = "gdi"
    /\ IF fail = "none"
       THEN /\ pc' = "loop"
            /\ owned' = GdiHandles
            /\ g_UseExcludeFromCapture' = exclude
            /\ UNCHANGED <<exitCode, reported>>
       ELSE /\ fail \in GdiStartupSteps
            /\ pc' = "exited"
            /\ exitCode' = 1
            /\ reported' = reported \cup {fail}
            /\ owned' = {}
            /\ g_UseExcludeFromCapture' = (fail = "InitGDI" /\ exclude)
    /\ UNCHANGED <<variant, g_Running, g_CompositeTexture, g_BackBuffer, presented, frameHeld,
                   trace, lastHr, lastInit, recoveryFailed, lost, duplVars, cursorVars,
                   decodeVars, blendVars, gdiVars, pointerVars, canvasVars, paceVars, moreVars>>

\* plausible slip: the window is shown again inside the cursor branch only
TickGdi_ReturnWithoutCursor(f, ci) ==
    /\ pc = "tick"
    /\ variant = "gdi"
    /\ GdiCacheCursor(ci)
    /\ trace' = (IF g_UseExcludeFromCapture THEN <<>> ELSE <<"SetWindowPos(SWP_HIDEWINDOW)">>)
                \o <<"StretchBlt">>
                \o (IF GdiDrawCalled(ci) THEN <<"DrawIconEx">> ELSE <<>>)
                \o (IF g_UseExcludeFromCapture \/ ~ci.ok THEN <<>>
                    ELSE <<"SetWindowPos(SWP_SHOWWINDOW)">>)
                \o <<"BitBlt">>
    /\ presented' = <<Canvas(f, GdiDrawIcon(ci, g_cachedHotspotX', g_cachedHotspotY'))>>
    /\ pc' = "loop"
    /\ UNCHANGED <<variant, g_Running, exitCode, reported, g_CompositeTexture, g_BackBuffer,
                   frameHeld, lastHr, lastInit, recoveryFailed, lost, duplVars, cursorVars,
                   decodeVars, blendVars, pointerVars, canvasVars, handleVars, paceVars, moreVars>>

\* void CaptureAndRender() of main_gdi.cpp: every call's result is ignored
TickGdi(f, ci) ==
    /\ pc = "tick"
    /\ variant = "gdi"
    /\ GdiCacheCursor(ci)
    /\ trace' = (IF g_UseExcludeFromCapture THEN <<>> ELSE <<"SetWindowPos(SWP_HIDEWINDOW)">>)
                \o <<"StretchBlt">>
                \o (IF GdiDrawCalled(ci) THEN <<"DrawIconEx">> ELSE <<>>)
                \o (IF g_UseExcludeFromCapture THEN <<>> ELSE <<"SetWindowPos(SWP_SHOWWINDOW)">>)
                \o <<"BitBlt">>
    /\ presented' = <<Canvas(f, GdiDrawIcon(ci, g_cachedHotspotX', g_cachedHotspotY'))>>
    /\ pc' = "loop"
    /\ UNCHANGED <<variant, g_Running, exitCode, reported, g_CompositeTexture, g_BackBuffer,
                   frameHeld, lastHr, lastInit, recoveryFailed, lost, duplVars, cursorVars,
                   decodeVars, blendVars, pointerVars, canvasVars, handleVars, paceVars, moreVars>>

\* the steps of InitMagnifier that can fail
MagnifierStartupSteps ==
    {"MagInitialize", "RegisterClassExW(wcHost)", "RegisterClassExW(wcBlack)",
     "CreateWindowExW(host)", "CreateWindowW(Magnifier)", "CreateWindowExW(black)",
     "MagSetWindowTransform"}

\* MAGTRANSFORM as the two diagonal factors, each a fraction <<num, den>>:
\* the one InitMagnifier computes, and the control's default
SessionTransform == [sx |-> <<RENDER_WIDTH, SOURCE_WIDTH>>, sy |-> <<RENDER_HEIGHT, SOURCE_HEIGHT>>]
IdentityTransform == [sx |-> <<1, 1>>, sy |-> <<1, 1>>]

\* the steps after which InitMagnifier shows a MessageBoxA before it returns false
MagnifierReported ==
    {"MagInitialize", "RegisterClassExW(wcHost)", "CreateWindowExW(host)",
     "CreateWindowW(Magnifier)"}

\* WinMain of main_magnifier.cpp up to the loop: InitMagnifier returning
\* false leads to Cleanup and return 1; a null g_hBlackWnd is tolerated
StartupMagnifier(fail) ==
    /\ pc = "start"
    /\ variant = "magnifier"
    /\ IF fail \in {"none", "CreateWindowExW(black)", "MagSetWindowTransform"}
       THEN /\ pc' = "loop"
            /\ magTransform' = IF fail = "MagSetWindowTransform"
                               THEN <<IdentityTransform>> ELSE <<SessionTransform>>
            /\ owned' = IF fail = "CreateWindowExW(black)"
                        THEN MagnifierHandles \ {"g_hBlackWnd"} ELSE MagnifierHandles
            /\ UNCHANGED <<exitCode, reported>>
       ELSE /\ fail \in MagnifierStartupSteps
            /\ pc' = "exited"
            /\ exitCode' = 1
            /\ reported' = reported \cup ({fail} \cap MagnifierReported)
            /\ owned' = {}
            /\ magTransform' = <<>>
    /\ UNCHANGED <<variant, g_Running, g_CompositeTexture, g_BackBuffer, presented, frameHeld,
                   trace, lastHr, lastInit, recoveryFailed, lost, duplVars, cursorVars,
                   decodeVars, blendVars, gdiVars, pointerVars, canvasVars,
                   g_UseExcludeFromCapture, paceVars, avgVars, malVars, resVars>>

\* the tick of main_magnifier.cpp: UpdateMagnifier, then the windows are
\* kept on top; the magnifier control shows desktop content f
TickMagnifier(f) ==
    /\ pc = "tick"
    /\ variant = "magnifier"
    /\ trace' = <<"MagSetWindowSource", "InvalidateRect", "SetWindowPos(g_hHostWnd)">>
                \o (IF "g_hBlackWnd" \in owned THEN <<"SetWindowPos(g_hBlackWnd)">> ELSE <<>>)
    /\ presented' = <<Canvas(f, NoCursor)>>
    /\ pc' = "loop"
    /\ UNCHANGED <<variant, g_Running, exitCode, reported, g_CompositeTexture, g_BackBuffer,
                   frameHeld, lastHr, lastInit, recoveryFailed, lost, duplVars, cursorVars,
                   decodeVars, extVars>>

\* after the loop of main_gdi.cpp and main_magnifier.cpp: Cleanup releases
\* every handle that is not null, WinMain returns 0
CleanupHandles ==
    /\ pc = "cleanup"
    /\ variant \in {"gdi", "magnifier"}
    /\ owned' = {}
    /\ pc' = "exited"
    /\ exitCode' = 0
    /\ UNCHANGED <<variant, g_Running, reported, g_CompositeTexture, g_BackBuffer, presented,
                   frameHeld, trace, lastHr, lastInit, recoveryFailed, lost, duplVars,
                   cursorVars, decodeVars, blendVars, gdiVars, pointerVars, canvasVars,
                   g_UseExcludeFromCapture, paceVars, moreVars>>

\* GetCursorInfo / GetIconInfo results of a tick of main_gdi.cpp
GdiTickCursors ==
    {[ok |-> ok, hCursor |-> h, iconOk |-> i, pos |-> p] :
        ok \in BOOLEAN, h \in {"IDC_ARROW", "IDC_IBEAM"}, i \in BOOLEAN, p \in CursorPositions}

InitLoop ==
    /\ variant \in {"dxgi", "main", "gdi", "magnifier"}
    /\ pc = "start"
    /\ LoopIdle
    /\ CursorInit
    /\ phase = "off"
    /\ shape = NoShape
    /\ history = <<>>
    /\ ExtIdle

NextLoop ==
    \/ Next
    \/ \E fail \in GdiStartupSteps \cup {"none"}, exclude \in BOOLEAN : StartupGdi(fail, exclude)
    \/ \E f \in Contents, ci \in GdiTickCursors : TickGdi(f, ci)
    \/ \E fail \in MagnifierStartupSteps \cup {"none"} : StartupMagnifier(fail)
    \/ \E f \in Contents : TickMagnifier(f)
    \/ CleanupHandles

SpecLoop == InitLoop /\ [][NextLoop]_vars

\* every resource the program holds has been released
Released ==
    /\ g_DeskDupl = "null"
    /\ g_StagingTexture = 0
    /\ g_DesktopSRV = 0
    /\ ~g_CursorBuffer.alloc
    /\ g_CompositeTexture = <<>>
    /\ owned = {}

\* C17: once a quit message has been seen while draining the queue, the
\* only step left is the cleanup: no call of a tick is made, nothing more is
\* presented, every resource is released and WinMain returns 0.
CooperativeQuit ==
    [][(~g_Running) =>
          /\ pc = "cleanup"
          /\ pc' = "exited"
          /\ exitCode' = 0
          /\ trace' = trace
          /\ presented' = presented
          /\ Released']_vars

\* main_gdi.cpp has presented a frame, then saw a quit message and returned
CooperativeQuitWitness ==
    /\ variant = "gdi"
    /\ ~g_Running
    /\ pc = "exited"
    /\ exitCode = 0
    /\ presented # <<>>
    /\ owned = {}

\* C19: a failed initialization step is reported, WinMain returns 1 and
\* no tick has run; the loop is only entered with the presentation surface
\* and the capture backend created.
FatalInitError ==
    /\ (pc = "exited" /\ exitCode = 1) =>
          (reported # {} /\ trace = <<>> /\ presented = <<>>)
    /\ (variant = "magnifier" /\ pc \in {"loop", "tick"}) => owned = MagnifierHandles
    /\ (variant = "gdi" /\ pc \in {"loop", "tick"}) => owned = GdiHandles

(***************************************************************************)
(* Errors inside a tick                                                    *)
(***************************************************************************)
\* the texture query of the last tick failed
QueryFailed ==
    /\ lastHr = S_OK
    /\ Count(trace, "QueryInterface") = 1
    /\ Count(trace, IF variant = "dxgi" THEN "CopyResource" ELSE "CopySubresourceRegion") = 0

\* the pointer-shape fetch of the last tick failed
ShapeFetchFailed ==
    /\ lastHr = S_OK
    /\ Count(trace, "GetFramePointerShape") = 1
    /\ Count(trace, "UpdateCursorShape") = 0

\* the last tick of main_dxgi.cpp or main.cpp ended with Timeout, with an
\* acquire failure other than device loss, or with a failed call after a
\* successful acquire
TickEndedWithError ==
    /\ variant \in {"dxgi", "main"}
    /\ pc \in {"loop", "crashed"}
    /\ trace # <<>>
    /\ (lastHr \in {TIMEOUT, E_OTHER} \/ QueryFailed \/ ShapeFetchFailed)

\* C18: a tick that ends with Timeout, with a failed pointer-shape fetch,
\* with a failed texture query or with an acquire failure other than device
\* loss leaves the running flag set and the program back at the top of the
\* loop, where the next tick can start.
PerTickErrorsAbsorbed ==
    TickEndedWithError =>
        /\ pc = "loop"
        /\ g_Running
        /\ exitCode = -1
        /\ ENABLED DrainMessages("none")

\* main_dxgi.cpp after a tick whose GetFramePointerShape failed
PerTickErrorsAbsorbedWitness ==
    /\ variant = "dxgi"
    /\ pc = "loop"
    /\ ShapeFetchFailed
    /\ g_Running

(***************************************************************************)
(* SpecPacing: the frame timing at the end of each loop iteration, the     *)
(* same statements in main_dxgi.cpp, main_gdi.cpp and main_magnifier.cpp.  *)
(* Time is counted in clock units, UnitsPerMs to the millisecond.          *)
(***************************************************************************)
\* plausible slip: the remaining time is taken in half-milliseconds
SleepArgument_HalfFrame(e) == (FRAME_TIME_MS * UnitsPerMs - e) \div (2 * UnitsPerMs)

\* (DWORD)(FRAME_TIME_MS - elapsedMs) for elapsedMs = e / UnitsPerMs below
\* FRAME_TIME_MS: the conversion drops the fraction
SleepArgument(e) == (FRAME_TIME_MS * UnitsPerMs - e) \div UnitsPerMs

\* one loop iteration: work is the time between QueryPerformanceCounter(&lastTime)
\* of the previous iteration and QueryPerformanceCounter(&currentTime), over the
\* time by which Sleep overruns its argument
PaceTick(work, over) ==
    /\ pc = "pacing"
    /\ elapsed' = work
    /\ sleepArg' = IF work < FRAME_TIME_MS * UnitsPerMs THEN SleepArgument(work) ELSE -1
    /\ interval' = work + (IF sleepArg' >= 0 THEN sleepArg' * UnitsPerMs + over ELSE 0)
    /\ UNCHANGED <<loopVars, duplVars, cursorVars, decodeVars, blendVars, gdiVars,
                   pointerVars, canvasVars, handleVars>>

InitPacing ==
    /\ LoopIdle
    /\ variant \in {"dxgi", "gdi", "magnifier"}
    /\ pc = "pacing"
    /\ CursorInit
    /\ phase = "off"
    /\ shape = NoShape
    /\ history = <<>>
    /\ ExtIdle

NextPacing ==
    \E work \in 0..(MaxWorkMs * UnitsPerMs), over \in 0..MaxOversleep :
        PaceTick(work, over) /\ UNCHANGED moreVars

SpecPacing == InitPacing /\ [][NextPacing]_vars

\* C20: a tick that took less than the frame time is followed by a
\* suspension of at least the remaining time, a tick that took longer by
\* none, so two consecutive ticks start at least one frame time apart.
Cadence ==
    (pc = "pacing" /\ interval > 0) =>
        /\ elapsed < FRAME_TIME_MS * UnitsPerMs =>
              /\ sleepArg >= 0
              /\ sleepArg * UnitsPerMs >= FRAME_TIME_MS * UnitsPerMs - elapsed
        /\ elapsed >= FRAME_TIME_MS * UnitsPerMs => sleepArg = -1
        /\ interval >= FRAME_TIME_MS * UnitsPerMs

(***************************************************************************)
(* SpecAverage: PacingTicks loop iterations whose work takes no time       *)
(***************************************************************************)
\* one loop iteration with elapsedMs = 0
PaceIdleTick(over) ==
    /\ ticks < PacingTicks
    /\ PaceTick(0, over)
    /\ ticks' = ticks + 1
    /\ total' = total + interval'
    /\ UNCHANGED <<malVars, magVars, resVars>>

NextAverage == \E over \in 0..MaxOversleep : PaceIdleTick(over)

SpecAverage == InitPacing /\ [][NextAverage]_vars

\* C21: over PacingTicks ticks without processing cost the average interval
\* total / ticks lies within 2 ms of 1000 / 60 ms (compared after
\* multiplying by 3 * ticks * UnitsPerMs).
AveragePacing ==
    (pc = "pacing" /\ ticks = PacingTicks) =>
        /\ 3 * total >= (50 - 6) * ticks * UnitsPerMs
        /\ 3 * total <= (50 + 6) * ticks * UnitsPerMs

\* PacingTicks ticks were paced and every Sleep returned on time: the average
\* is FRAME_TIME_MS, below the 16.67 ms target
AveragePacingWitness ==
    /\ pc = "pacing"
    /\ ticks = PacingTicks
    /\ total = PacingTicks * FRAME_TIME_MS * UnitsPerMs
    /\ sleepArg = FRAME_TIME_MS

\* C22: after a tick that composited a frame, every render-region pixel
\* that is not covered by the cursor shows the source texel at the pixel's
\* position scaled by SOURCE_WIDTH / RENDER_WIDTH and SOURCE_HEIGHT /
\* RENDER_HEIGHT (to within one source column, the sampling point inside the
\* pixel being the filter's choice): the source is resampled, not cropped.
FrameResampled ==
    (pc = "canvas" /\ phase = "run" /\ srcFrame # 0 /\ frameWrites # {}) =>
        \A p \in RenderRect :
            \/ canvas[p] = CursorTexel
            \/ \E dx \in {-1, 0, 1} :
                  canvas[p] = DesktopTexel(srcFrame,
                                           (p[1] * SOURCE_WIDTH) \div RENDER_WIDTH + dx,
                                           (p[2] * SOURCE_HEIGHT) \div RENDER_HEIGHT)

(***************************************************************************)
(* Order of the calls inside a tick                                        *)
(***************************************************************************)
\* the names of the frame composite, the cursor blend and the present
CompositeCall == IF variant = "gdi" THEN "StretchBlt" ELSE "Draw"
BlendCall     == IF variant = "gdi" THEN "DrawIconEx" ELSE "DrawCursorOnTexture"
PresentCall   == IF variant = "gdi" THEN "BitBlt" ELSE "Present"

\* C23: in a tick of main_dxgi.cpp or main_gdi.cpp that presents, the cursor
\* blend is called at most once, after the frame composite and before the
\* present; a cursor on the presented canvas was blended in this very tick,
\* and the textures holding captured frames hold frame content only.
BlendOncePerTick ==
    (variant \in {"dxgi", "gdi"} /\ Count(trace, PresentCall) > 0) =>
        /\ Count(trace, PresentCall) = 1
        /\ Count(trace, CompositeCall) = 1
        /\ Count(trace, BlendCall) <= 1
        /\ Count(trace, BlendCall) = 1 =>
              /\ IndexOf(trace, CompositeCall) < IndexOf(trace, BlendCall)
              /\ IndexOf(trace, BlendCall) < IndexOf(trace, PresentCall)
        /\ presented # <<>>
        /\ presented[1].cursor # NoCursor => Count(trace, BlendCall) = 1
        /\ \A i \in DOMAIN textures : textures[i] \in UninitContents

\* main_dxgi.cpp presented a canvas with the cursor blended onto it
BlendOncePerTickWitness ==
    /\ variant = "dxgi"
    /\ pc = "loop"
    /\ Count(trace, "DrawCursorOnTexture") = 1
    /\ Count(trace, "Present") = 1
    /\ presented # <<>>
    /\ presented[1].cursor # NoCursor

(***************************************************************************)
(* The window around the screen copy of main_gdi.cpp                       *)
(***************************************************************************)
HideCall == "SetWindowPos(SWP_HIDEWINDOW)"
ShowCall == "SetWindowPos(SWP_SHOWWINDOW)"

\* C24: a tick of main_gdi.cpp without display-affinity exclusion hides the
\* window before the screen copy and shows it again after the copy and
\* before the present, whatever the cursor state; with exclusion the window
\* is not hidden at all.
HideCaptureRestore ==
    (variant = "gdi" /\ Count(trace, "BitBlt") > 0) =>
        IF g_UseExcludeFromCapture
        THEN Count(trace, HideCall) = 0 /\ Count(trace, ShowCall) = 0
        ELSE /\ Count(trace, HideCall) = 1
             /\ Count(trace, ShowCall) = 1
             /\ IndexOf(trace, HideCall) < IndexOf(trace, "StretchBlt")
             /\ IndexOf(trace, "StretchBlt") < IndexOf(trace, ShowCall)
             /\ IndexOf(trace, ShowCall) < IndexOf(trace, "BitBlt")

\* a tick without exclusion in which the cursor was not showing
HideCaptureRestoreWitness ==
    /\ variant = "gdi"
    /\ pc = "loop"
    /\ ~g_UseExcludeFromCapture
    /\ Count(trace, "BitBlt") = 1
    /\ Count(trace, "DrawIconEx") = 0
    /\ Count(trace, ShowCall) = 1

\* C25: a tick whose acquire failed with device loss has released the
\* duplication and called InitDesktopDuplication before it returns, so the
\* next acquire goes to a new duplication.
DeviceLossRecreates ==
    (pc = "loop" /\ lastHr = ACCESS_LOST) =>
        /\ Count(trace, "Release(g_DeskDupl)") = 1
        /\ Count(trace, "InitDesktopDuplication") = 1

(***************************************************************************)
(* SpecMalformed: UpdateCursorShape of main_dxgi.cpp on malformed payloads *)
(***************************************************************************)
\* bytes one row of the declared width needs
RowBytes(shapeInfo) ==
    IF shapeInfo.Type = SHAPE_MONOCHROME THEN (shapeInfo.Width + 7) \div 8
    ELSE shapeInfo.Width * 4

\* the zero-based indices of shapeBuffer the branch for shapeInfo.Type reads
ReadIndices(shapeInfo) ==
    LET w == shapeInfo.Width
        P == shapeInfo.Pitch
    IN  IF shapeInfo.Type = SHAPE_MONOCHROME
        THEN LET h == shapeInfo.Height \div 2
             IN  UNION {{y * P + (x \div 8), y * P + (x \div 8) + h * P} :
                           x \in 0..(w - 1), y \in 0..(h - 1)}
        ELSE IF shapeInfo.Type \in {SHAPE_COLOR, SHAPE_MASKED_COLOR}
        THEN {y * P + o : y \in 0..(shapeInfo.Height - 1), o \in 0..(w * 4 - 1)}
        ELSE {}

\* the bytes a decode sees when reads past the end of the allocation return g
ReadThrough(shapeInfo, shapeBuffer, g) ==
    LET top == IF ReadIndices(shapeInfo) = {} THEN 0
               ELSE CHOOSE i \in ReadIndices(shapeInfo) :
                       \A j \in ReadIndices(shapeInfo) : j <= i
    IN  [k \in 1..(IF top + 1 > Len(shapeBuffer) THEN top + 1 ELSE Len(shapeBuffer)) |->
            IF k <= Len(shapeBuffer) THEN shapeBuffer[k] ELSE g]

MalformedInfos ==
    {[Type |-> t, Width |-> w, Height |-> (IF t = SHAPE_MONOCHROME THEN 2 * h ELSE h),
      Pitch |-> P, HotSpot |-> [x |-> 0, y |-> 0]] :
        t \in {SHAPE_MONOCHROME, SHAPE_COLOR, SHAPE_MASKED_COLOR},
        w \in {1, 2, 9}, h \in {1, 2}, P \in {0, 1, 4, 8}}

RECURSIVE ByteStrings(_)
ByteStrings(n) ==
    IF n = 0 THEN {<<>>}
    ELSE ByteStrings(n - 1)
         \cup {Append(b, v) : b \in {c \in ByteStrings(n - 1) : Len(c) = n - 1}, v \in {0, 255}}

\* payloads shorter than Height * Pitch, or with a Pitch below one row
MalformedShapes ==
    {s \in [info : MalformedInfos, buf : ByteStrings(MaxMonoBytes)] :
        \/ Len(s.buf) < s.info.Height * s.info.Pitch
        \/ s.info.Pitch < RowBytes(s.info)}

InitMalformed ==
    /\ LoopIdle
    /\ variant = "dxgi"
    /\ pc = "malformed"
    /\ CursorInit
    /\ phase = "shape"
    /\ shape = NoShape
    /\ history = <<>>
    /\ ExtIdle

\* GetFramePointerShape succeeded with payload s; UpdateCursorShape gets the
\* info and the buffer, not the buffer's size.  A read past the end of the
\* new BYTE[] allocation is undefined: the process faults, or the read
\* returns whatever byte g lies there
DecodeMalformed ==
    /\ pc = "malformed"
    /\ phase = "shape"
    /\ \E s \in MalformedShapes, g \in {0, 255} :
          /\ shape' = s
          /\ reads' = ReadIndices(s.info)
          /\ IF \A i \in ReadIndices(s.info) : i < Len(s.buf)
             THEN /\ UpdateCursorShape(s.info, s.buf)
                  /\ pc' = "malformed"
             ELSE \/ /\ pc' = "crashed"
                     /\ UNCHANGED cursorVars
                  \/ /\ UpdateCursorShape(s.info, ReadThrough(s.info, s.buf, g))
                     /\ pc' = "malformed"
    /\ phase' = "decoded"
    /\ UNCHANGED <<variant, g_Running, exitCode, reported, g_CompositeTexture, g_BackBuffer,
                   presented, frameHeld, trace, lastHr, lastInit, recoveryFailed, lost,
                   duplVars, history, blendVars, gdiVars, pointerVars, canvasVars,
                   handleVars, paceVars, avgVars, magVars, resVars>>

NextMalformed == DecodeMalformed

SpecMalformed == InitMalformed /\ [][NextMalformed]_vars

\* C26: a shape update whose payload is shorter than Height * Pitch or
\* whose Pitch is below one row is rejected: the process keeps running, no
\* bitmap is cached from it, and no byte outside the payload is read.
MalformedPayloadRejected ==
    phase = "decoded" =>
        /\ pc # "crashed"
        /\ ~g_CursorBuffer.alloc
        /\ \A i \in reads : i < Len(shape.buf)

\* C27: while the loop of main_magnifier.cpp runs, the transform of the
\* magnifier control has the factors RENDER_WIDTH / SOURCE_WIDTH and
\* RENDER_HEIGHT / SOURCE_HEIGHT, and a tick makes no call other than
\* setting the source rectangle, invalidating and keeping the windows on top.
TransformMatchesSession ==
    (variant = "magnifier" /\ pc \in {"loop", "tick"}) =>
        /\ magTransform # <<>>
        /\ magTransform[1].sx[1] * SOURCE_WIDTH = magTransform[1].sx[2] * RENDER_WIDTH
        /\ magTransform[1].sy[1] * SOURCE_HEIGHT = magTransform[1].sy[2] * RENDER_HEIGHT
        /\ \A i \in DOMAIN trace :
              trace[i] \in {"MagSetWindowSource", "InvalidateRect",
                            "SetWindowPos(g_hHostWnd)", "SetWindowPos(g_hBlackWnd)"}

\* C28: the cursor blend never writes a pad-region pixel: whatever the pointer
\* position inside the source rectangle, the hotspot and the bitmap size, the
\* cursor texels of every tick lie inside the render rectangle, in
\* main_dxgi.cpp and in main_gdi.cpp.
CursorConfinedToRenderRect ==
    (pc = "canvas" /\ variant \in {"dxgi", "gdi"}) =>
        /\ ~cursorOnPad
        /\ \A p \in PadRegion : canvas # <<>> => canvas[p] # CursorTexel

\* C29: in main_dxgi.cpp device-loss recovery replaces only what it releases:
\* at any time at most one duplication handle, one staging texture and one
\* shader resource view are live, and after Cleanup every object ever created
\* has been released.
RecoveryReplacesWhatItReleases ==
    variant = "dxgi" =>
        /\ made.dupl - freed.dupl <= 1
        /\ made.tex - freed.tex <= 1
        /\ made.srv - freed.srv <= 1
        /\ (pc = "exited" => made = freed)

\* C30: the pointer visibility flag is honoured in every tick of main_dxgi.cpp
\* and main_gdi.cpp: when the flag is false no cursor is blended, whatever
\* bitmap is cached.
VisibilityHonoured ==
    (pc = "pointer" /\ showing = <<FALSE>>) => overlay = NoCursor


====
